---- MODULE Spec2Model ----
(***************************************************************************)
(* Model of the scipfs Go helper (scipfs_go_helper): a one-shot command    *)
(* bridge between a caller and an IPFS (Kubo) daemon.  One invocation      *)
(* parses its arguments, checks the installed ipfs version, connects to    *)
(* the daemon, runs one subcommand, prints one JSON envelope and exits.    *)
(*                                                                         *)
(* Text that the program itself takes apart (the version string) is a      *)
(* sequence of one-character strings.  Text that only library code takes   *)
(* apart (CIDs, multiaddresses, JSON documents) is an atomic string whose  *)
(* library verdict is tabulated.                                           *)
(***************************************************************************)
EXTENDS Integers, Sequences, FiniteSets, TLC

(***************************************************************************)
(* Bounds of the model                                                     *)
(***************************************************************************)
\* number of successive invocations of the helper in one behaviour
MaxRuns == 2

(***************************************************************************)
(* Go string helpers, on sequences of one-character strings                *)
(***************************************************************************)
WhiteSpace == {" ", "\n", "\t", "\r"}

Digits == {"0", "1", "2", "3", "4", "5", "6", "7", "8", "9"}

DigitVal(c) ==
    CASE c = "0" -> 0 [] c = "1" -> 1 [] c = "2" -> 2 [] c = "3" -> 3
      [] c = "4" -> 4 [] c = "5" -> 5 [] c = "6" -> 6 [] c = "7" -> 7
      [] c = "8" -> 8 [] c = "9" -> 9

RECURSIVE TrimLeft(_)
TrimLeft(s) ==
    IF s # <<>> /\ Head(s) \in WhiteSpace THEN TrimLeft(Tail(s)) ELSE s

RECURSIVE TrimRight(_)
TrimRight(s) ==
    IF s # <<>> /\ s[Len(s)] \in WhiteSpace
    THEN TrimRight(SubSeq(s, 1, Len(s) - 1))
    ELSE s

\* strings.TrimSpace
TrimSpace(s) == TrimRight(TrimLeft(s))

\* strings.TrimPrefix: removes the prefix once, if present
TrimPrefix(s, prefix) ==
    IF Len(s) >= Len(prefix) /\ SubSeq(s, 1, Len(prefix)) = prefix
    THEN SubSeq(s, Len(prefix) + 1, Len(s))
    ELSE s

\* strings.Split(s, sep) for a one-character separator: a string with n
\* separators always gives n + 1 parts, empty ones included
RECURSIVE SplitFrom(_, _, _)
SplitFrom(s, sep, cur) ==
    IF s = <<>> THEN <<cur>>
    ELSE IF Head(s) = sep THEN <<cur>> \o SplitFrom(Tail(s), sep, <<>>)
    ELSE SplitFrom(Tail(s), sep, Append(cur, Head(s)))

Split(s, sep) == SplitFrom(s, sep, <<>>)

\* strings.Fields on a text given by its pieces (a word is one piece)
Fields(pieces) == SelectSeq(pieces, LAMBDA x : x \notin WhiteSpace)

RECURSIVE DigitsValue(_, _)
DigitsValue(s, acc) ==
    IF s = <<>> THEN acc ELSE DigitsValue(Tail(s), acc * 10 + DigitVal(Head(s)))

\* strconv.Atoi: an optional sign, then one or more decimal digits.  The
\* strings of the model have at most three digits, so the range error of
\* Atoi (more than 64 bits) cannot arise.
Atoi(s) ==
    LET signed == s # <<>> /\ Head(s) \in {"+", "-"}
        body   == IF signed THEN Tail(s) ELSE s
    IN  IF body = <<>> \/ \E i \in 1..Len(body) : body[i] \notin Digits
        THEN [ok |-> FALSE, val |-> 0]
        ELSE [ok |-> TRUE,
              val |-> IF signed /\ Head(s) = "-"
                      THEN 0 - DigitsValue(body, 0)
                      ELSE DigitsValue(body, 0)]

(***************************************************************************)
(* compareVersions                                                         *)
(***************************************************************************)
RequiredIPFSVersion == <<"0", ".", "3", "4", ".", "1">>

\* the closure parseVer of compareVersions
parseVer(vStr) ==
    LET parts == Split(TrimSpace(vStr), ".")
    IN  IF Len(parts) # 3 THEN [ok |-> FALSE, v |-> <<>>]
        ELSE IF \E i \in 1..3 : ~Atoi(parts[i]).ok THEN [ok |-> FALSE, v |-> <<>>]
        ELSE [ok |-> TRUE, v |-> [i \in 1..3 |-> Atoi(parts[i]).val]]

\* a variant that stops comparing after the minor number
compareVersionsNoPatch(version1Str, version2Str) ==
    LET p1 == parseVer(version1Str)
        p2 == parseVer(version2Str)
    IN  IF ~p1.ok \/ ~p2.ok THEN [err |-> TRUE, less |-> FALSE]
        ELSE IF p1.v[1] < p2.v[1] THEN [err |-> FALSE, less |-> TRUE]
        ELSE IF p1.v[1] > p2.v[1] THEN [err |-> FALSE, less |-> FALSE]
        ELSE IF p1.v[2] < p2.v[2] THEN [err |-> FALSE, less |-> TRUE]
        ELSE [err |-> FALSE, less |-> FALSE]

\* compareVersions: (less, err); less is true iff version1 is older
compareVersions(version1Str, version2Str) ==
    LET p1 == parseVer(version1Str)
        p2 == parseVer(version2Str)
    IN  IF ~p1.ok THEN [err |-> TRUE, less |-> FALSE]
        ELSE IF ~p2.ok THEN [err |-> TRUE, less |-> FALSE]
        ELSE IF p1.v[1] < p2.v[1] THEN [err |-> FALSE, less |-> TRUE]
        ELSE IF p1.v[1] > p2.v[1] THEN [err |-> FALSE, less |-> FALSE]
        ELSE IF p1.v[2] < p2.v[2] THEN [err |-> FALSE, less |-> TRUE]
        ELSE IF p1.v[2] > p2.v[2] THEN [err |-> FALSE, less |-> FALSE]
        ELSE IF p1.v[3] < p2.v[3] THEN [err |-> FALSE, less |-> TRUE]
        ELSE [err |-> FALSE, less |-> FALSE]

(***************************************************************************)
(* Library verdicts, tabulated over the strings of the model               *)
(***************************************************************************)
DefaultAPI == "/ip4/127.0.0.1/tcp/5001"
OtherAPI == "/ip4/10.0.0.2/tcp/5001"
\* a well-formed multiaddress that names no dialable endpoint
UndialableAPI == "/p2p-circuit"
MalformedAPI == "localhost:5001"

\* ma.NewMultiaddr succeeds
MultiaddrOK(a) == a \in {DefaultAPI, OtherAPI, UndialableAPI}

\* rpc.NewApi succeeds (the address has a host and a port to dial)
DialableOK(a) == a \in {DefaultAPI, OtherAPI}

\* the daemons of the model: the one the ipfs command-line tool talks to
\* (its repository's own daemon, listening on the default address) and a
\* second one listening elsewhere
Daemons == {"local", "remote"}
DaemonAt(a) == IF a = OtherAPI THEN "remote" ELSE "local"
CliDaemon == "local"

\* CID strings: the test's CIDv0, one CIDv1 in three spellings, and strings
\* that are no CID
TestCid == "QmUNLLsPACCz1vLxQVkXqqLX5R1X345qqfHbsf67hvA3Nn"
JsonCid == "bafkreigjsondoc"
JsonCidUpper == "BAFKREIGJSONDOC"
JsonCidB58 == "zb2rhjsondoc"
TextCid == "bafkreigtextdoc"
PaperCid == "bafkreigpaper"
InvalidCid == "invalidCIDstructure"
ValidCidStrings == {TestCid, JsonCid, JsonCidUpper, JsonCidB58, TextCid, PaperCid}

\* cid.Decode: ok and the decoded identifier (version, content)
cidDecode(s) ==
    CASE s = TestCid -> [ok |-> TRUE, version |-> 0, content |-> "emptydir"]
      [] s \in {JsonCid, JsonCidUpper, JsonCidB58}
                     -> [ok |-> TRUE, version |-> 1, content |-> "jsondoc"]
      [] s = TextCid -> [ok |-> TRUE, version |-> 1, content |-> "textdoc"]
      [] s = PaperCid -> [ok |-> TRUE, version |-> 1, content |-> "paper"]
      [] OTHER       -> [ok |-> FALSE, version |-> 0, content |-> ""]

\* Cid.String: base58 for version 0, lower-case base32 for version 1
cidString(c) ==
    CASE c.content = "emptydir" -> TestCid
      [] c.content = "jsondoc"  -> JsonCid
      [] c.content = "textdoc"  -> TextCid
      [] c.content = "paper"    -> PaperCid
      [] OTHER                  -> ""

\* path strings given as option values or printed by the ipfs tool
IpfsPathArg == "/ipfs/QmUNLLsPACCz1vLxQVkXqqLX5R1X345qqfHbsf67hvA3Nn"
IpnsPathArg == "/ipns/k51name"

\* strings.HasPrefix(s, "/ipfs/") || strings.HasPrefix(s, "/ipns/")
HasNamespacePrefix(s) == s \in {IpfsPathArg, IpnsPathArg}

\* strconv.ParseBool and strconv.ParseInt on the flag values of the model
ParseBoolOK(v) == v \in {"true", "false", "1", "0"}
ParseBoolVal(v) == v \in {"true", "1"}
ParseIntOK(v) == v \in {"5", "20"}
ParseIntVal(v) == IF v = "5" THEN 5 ELSE 20

(***************************************************************************)
(* Command-line arguments and package flag                                 *)
(*   <<"flag", n, "">>   the argument -n or --n                            *)
(*   <<"flagv", n, v>>   the argument -n=v or --n=v                        *)
(*   <<"term", "", "">>  the argument --                                   *)
(*   <<"pos", "", v>>    any other argument v                              *)
(***************************************************************************)
F(n) == <<"flag", n, "">>
FV(n, v) == <<"flagv", n, v>>
P(v) == <<"pos", "", v>>

\* the text of an argument taken as a value; in the argument lists of the
\* model only plain arguments are taken as values
ArgText(tok) == IF tok[1] = "pos" THEN tok[3] ELSE "-flag"

\* FlagSet.Parse: defs gives the type of every defined flag, vals the
\* values so far.  err is "" or the kind of error; rest is FlagSet.Args().
RECURSIVE FlagParse(_, _, _)
FlagParse(defs, vals, a) ==
    IF a = <<>> THEN [err |-> "", vals |-> vals, rest |-> <<>>]
    ELSE LET t == Head(a) IN
      IF t[1] = "pos" THEN [err |-> "", vals |-> vals, rest |-> a]
      ELSE IF t[1] = "term" THEN [err |-> "", vals |-> vals, rest |-> Tail(a)]
      ELSE IF t[2] \notin DOMAIN defs
        THEN [err |-> IF t[2] \in {"h", "help"} THEN "help" ELSE "undefined",
              vals |-> vals, rest |-> Tail(a)]
      ELSE IF defs[t[2]] = "bool"
        THEN IF t[1] = "flagv"
             THEN IF ParseBoolOK(t[3])
                  THEN FlagParse(defs, [vals EXCEPT ![t[2]] = ParseBoolVal(t[3])], Tail(a))
                  ELSE [err |-> "invalid", vals |-> vals, rest |-> Tail(a)]
             ELSE FlagParse(defs, [vals EXCEPT ![t[2]] = TRUE], Tail(a))
      ELSE IF t[1] = "flag" /\ Len(a) < 2
        THEN [err |-> "needs_argument", vals |-> vals, rest |-> Tail(a)]
      ELSE LET value == IF t[1] = "flagv" THEN t[3] ELSE ArgText(a[2])
               rest  == IF t[1] = "flagv" THEN Tail(a) ELSE Tail(Tail(a))
           IN  IF defs[t[2]] = "int"
               THEN IF ParseIntOK(value)
                    THEN FlagParse(defs, [vals EXCEPT ![t[2]] = ParseIntVal(value)], rest)
                    ELSE [err |-> "invalid", vals |-> vals, rest |-> rest]
               ELSE FlagParse(defs, [vals EXCEPT ![t[2]] = value], rest)

(***************************************************************************)
(* The process: its two output streams, its exit code, and the list of the *)
(* things it has done so far                                               *)
(***************************************************************************)
Running == -1

WrapperVersion == "0.1.0"

\* the nil interface value
Nil == [t |-> "nil"]

\* json.Marshal of a CommandResponse: error and data carry omitempty
CommandResponse(success, errorMsg, data) ==
    IF errorMsg # "" /\ data # Nil
    THEN [success |-> success, error |-> errorMsg, data |-> data]
    ELSE IF errorMsg # "" THEN [success |-> success, error |-> errorMsg]
    ELSE IF data # Nil THEN [success |-> success, data |-> data]
    ELSE [success |-> success]

Json(body) == [kind |-> "json", body |-> body]
Text(body) == [kind |-> "text", body |-> body]

\* log entries: what was done, and with which arguments
DidWith(p, what, argv) == [p EXCEPT !.log = Append(@, <<what, argv>>)]
Did(p, what) == DidWith(p, what, <<>>)

\* a variant that reports a failure on standard output and keeps running
printJSONResponseNoExit(p, success, errorMsg, data) ==
    Did([p EXCEPT !.stdout = Append(@, Json(CommandResponse(success, errorMsg, data)))],
        IF success THEN "emit_success" ELSE "emit_failure")

\* printJSONResponse: success goes to standard output and the caller goes
\* on; failure goes to standard error and the process exits with 1.  Every
\* payload of the model can be marshalled, so the fallback is not taken.
printJSONResponse(p, success, errorMsg, data) ==
    LET jsonBytes == Json(CommandResponse(success, errorMsg, data))
    IN  IF success
        THEN Did([p EXCEPT !.stdout = Append(@, jsonBytes)], "emit_success")
        ELSE Did([p EXCEPT !.stderr = Append(@, jsonBytes), !.exitCode = 1],
                 "emit_failure")

\* flag.ExitOnError: the message and the usage go to standard error as
\* plain text; the process exits with 0 for -h/-help and with 2 otherwise
exitOnError(p, err) ==
    Did([p EXCEPT !.stderr = Append(@, Text("usage")),
                  !.exitCode = IF err = "help" THEN 0 ELSE 2],
        "flag_error")

\* main returns: a process that is still running exits with 0
return(p) == IF p.exitCode = Running THEN [p EXCEPT !.exitCode = 0] ELSE p

(***************************************************************************)
(* State                                                                   *)
(***************************************************************************)
VARIABLES
    args,            \* os.Args[1:] of the running invocation
    pc,              \* where the invocation stands
    subcommand,      \* main: subcommand
    subcommandArgs,  \* main: subcommandArgs
    apiAddrStr,      \* main: *apiAddrStr
    versionRun,      \* what the child "ipfs version --number" returned
    idOutput,        \* main: idOutput
    stdout,          \* what the process wrote to standard output
    stderr,          \* what the process wrote to standard error
    exitCode,        \* the exit code, Running while the process runs
    log,             \* what the process has done so far, in order
    daemon,          \* the state of each daemon
    fs,              \* the files the invocation may touch
    runs,            \* number of invocations started
    lastPin,         \* history: what the previous invocation pinned, if anything
    cmp              \* inputs and results of compareVersions on its own

vars == <<args, pc, subcommand, subcommandArgs, apiAddrStr, versionRun, idOutput,
          stdout, stderr, exitCode, log, daemon, fs, runs, lastPin, cmp>>

Proc == [stdout |-> stdout, stderr |-> stderr, exitCode |-> exitCode, log |-> log]

\* the process goes on at nextpc unless it has exited
Commit(p, nextpc) ==
    /\ stdout' = p.stdout
    /\ stderr' = p.stderr
    /\ exitCode' = p.exitCode
    /\ log' = p.log
    /\ pc' = IF p.exitCode # Running THEN "exited" ELSE nextpc

\* a variant that reports the failure and lets the caller go on
FailAndGoOn(p, msg) ==
    Did([p EXCEPT !.stderr = Append(@, Json(CommandResponse(FALSE, msg, Nil)))],
        "emit_failure")

\* the failure branches of main: printJSONResponse(false, msg, nil)
Fail(p, msg) == printJSONResponse(p, FALSE, msg, Nil)

(***************************************************************************)
(* Files and daemons                                                       *)
(***************************************************************************)
OutPath == "/tmp/out.bin"
DirPath == "/data"
FilePath == "/data/paper.pdf"
MissingPath == "/data/missing.pdf"
LockedPath == "/data/locked/paper.pdf"
Paths == {OutPath, DirPath, FilePath, MissingPath, LockedPath}

NoId == [ID |-> "", AgentVersion |-> "", ProtocolVersion |-> "", Addresses |-> <<>>]
IdOf(d) == [ID |-> d, AgentVersion |-> "kubo", ProtocolVersion |-> "ipfs/0.1.0",
            Addresses |-> <<d>>]

(***************************************************************************)
(* The invocations of the model                                            *)
(***************************************************************************)
KnownSubcommands ==
    {"version", "daemon_info", "pin", "add_file", "get_cid_to_file", "get_json_cid",
     "add_json", "gen_ipns_key", "list_ipns_keys_cmd", "publish_ipns", "resolve_ipns",
     "list_pinned_cids", "dht_find_providers"}

\* global options given with every subcommand of the model
CommonGlobalArgs ==
    { <<>>,
      <<F("api"), P(OtherAPI)>> }

\* global options given with a few subcommands only
OtherGlobalArgs ==
    { <<F("api"), P(DefaultAPI)>>,
      <<F("api"), P(UndialableAPI)>>,
      <<FV("api", MalformedAPI)>>,
      <<F("api")>>,
      <<F("bogus")>>,
      <<F("h")>> }

PinArgs ==
    { <<P("pin")>>, <<P("pin"), F("recursive")>> }
    \cup { <<P("pin"), P(c)>> : c \in {TestCid, JsonCidUpper, InvalidCid} }

AddFileArgs ==
    { <<P("add_file")>>, <<P("add_file"), FV("file", "")>>, <<P("add_file"), F("file")>> }
    \cup { <<P("add_file"), F("file"), P(f)>> :
             f \in {FilePath, DirPath, MissingPath, LockedPath} }

GetCidToFileArgs ==
    { <<P("get_cid_to_file")>>,
      <<P("get_cid_to_file"), F("cid"), P(InvalidCid)>>,
      <<P("get_cid_to_file"), F("cid"), P(TestCid), F("output")>>,
      <<P("get_cid_to_file"), F("cid"), P(JsonCidB58), F("output"), P(OutPath)>> }
    \cup { <<P("get_cid_to_file"), F("cid"), P(c), F("output"), P(o)>> :
             c \in {JsonCid, InvalidCid}, o \in {OutPath, DirPath} }

GetJsonCidArgs ==
    { <<P("get_json_cid")>> }
    \cup { <<P("get_json_cid"), FV("cid", c)>> : c \in {JsonCidB58, InvalidCid} }

AddJsonArgs == { <<P("add_json")>>, <<P("add_json"), F("pin")>> }

GenKeyArgs ==
    { <<P("gen_ipns_key")>>,
      <<P("gen_ipns_key"), F("key-name"), P("mykey")>>,
      <<P("gen_ipns_key"), F("key-name"), P("mykey"), FV("key-type", "ed25519")>> }

ListKeysArgs == { <<P("list_ipns_keys_cmd")>>, <<P("list_ipns_keys_cmd"), F("l")>> }

PublishArgs ==
    { <<P("publish_ipns")>>,
      <<P("publish_ipns"), F("key-name"), P("mykey")>> }
    \cup { <<P("publish_ipns"), F("key-name"), P("mykey"), F("path"), P(pth)>> :
             pth \in {IpfsPathArg, IpnsPathArg, TestCid} }

ResolveArgs ==
    { <<P("resolve_ipns")>>,
      <<P("resolve_ipns"), F("ipns-name"), P("k51name")>>,
      <<P("resolve_ipns"), F("ipns-name"), P("k51name"), FV("nocache", "false")>>,
      <<P("resolve_ipns"), F("ipns-name"), P("k51name"), FV("recursive", "false")>>,
      <<P("resolve_ipns"), F("ipns-name"), P("k51name"), FV("nocache", "false"),
        FV("recursive", "false")>>,
      <<P("resolve_ipns"), F("ipns-name"), P("k51name"), FV("nocache", "maybe")>> }

ListPinnedArgs ==
    { <<P("list_pinned_cids")>>, <<P("list_pinned_cids"), F("pin-type")>> }
    \cup { <<P("list_pinned_cids"), FV("pin-type", t)>> :
             t \in {"all", "direct", "bogus", "Recursive", ""} }

FindProvsArgs ==
    { <<P("dht_find_providers")>>,
      <<P("dht_find_providers"), F("cid"), P(TestCid), F("num-providers"), P("many")>> }
    \cup { <<P("dht_find_providers"), F("cid"), P(c)>> :
             c \in {TestCid, JsonCidUpper, InvalidCid} }
    \cup { <<P("dht_find_providers"), F("cid"), P(c), F("num-providers"), P("5")>> :
             c \in {TestCid, InvalidCid} }

UnknownArgs ==
    { <<P("foobar")>>,
      <<P("find_providers_cid"), F("cid"), P(TestCid), F("num-providers"), P("5")>> }

SubcommandArgs ==
    { <<>>, <<P("version")>>, <<P("daemon_info")>> }
    \cup PinArgs \cup AddFileArgs \cup GetCidToFileArgs \cup GetJsonCidArgs
    \cup AddJsonArgs \cup GenKeyArgs \cup ListKeysArgs \cup PublishArgs
    \cup ResolveArgs \cup ListPinnedArgs \cup FindProvsArgs \cup UnknownArgs

FewSubcommandArgs ==
    { <<>>, <<P("version")>>, <<P("daemon_info")>>, <<P("pin"), P(TestCid)>>,
      <<P("pin"), P(InvalidCid)>>, <<P("foobar")>>,
      <<P("find_providers_cid"), F("cid"), P(TestCid), F("num-providers"), P("5")>> }

ArgLists ==
    { g \o s : g \in CommonGlobalArgs, s \in SubcommandArgs }
    \cup { g \o s : g \in OtherGlobalArgs, s \in FewSubcommandArgs }

(***************************************************************************)
(* What the environment may answer                                         *)
(***************************************************************************)
\* results of the child "ipfs version --number": exit status and output
VersionOutputs ==
    { <<"0", ".", "3", "4", ".", "1", "\n">>,
      <<"v", "0", ".", "3", "4", ".", "1", "\n">>,
      <<"0", ".", "3", "5", ".", "0", "\n">>,
      <<"1", ".", "0", ".", "0">>,
      <<"v", " ", "0", ".", "3", "4", ".", "2">>,
      <<"0", ".", "3", "4", ".", "0", "\n">>,
      <<"0", ".", "3", "3", ".", "9", "\n">>,
      <<"0", ".", "9", ".", "9">>,
      <<"0", ".", "3", "4", "\n">>,
      <<"0", ".", "3", "4", ".", "1", ".", "2">>,
      <<"0", ".", "3", "4", ".", "x">>,
      <<"0", ".", "3", "5", ".", "0", "-", "r", "c", "1">>,
      <<"v", "v", "0", ".", "3", "5", ".", "0">>,
      <<"0", ".", ".", "1">>,
      <<"\n">>,
      <<>> }

VersionRuns ==
    { [ok |-> TRUE, out |-> o] : o \in VersionOutputs }
    \cup { [ok |-> FALSE, out |-> <<>>],
           [ok |-> FALSE, out |-> <<"0", ".", "3", "5", ".", "0", "\n">>] }

NoRun == [ok |-> FALSE, out |-> <<"-">>]

(***************************************************************************)
(* Initial state: no invocation yet                                        *)
(***************************************************************************)
CmpOff == [phase |-> "off"]

\* no pin by the previous invocation
NoPin == [cid |-> "", api |-> "", pins |-> {}]

InitDaemon ==
    [d \in Daemons |->
        [pins |-> {}, blocks |-> {"emptydir", "jsondoc"}, keys |-> {"self"}, names |-> {}]]

InitProgram ==
    /\ args = <<>>
    /\ pc = "idle"
    /\ subcommand = ""
    /\ subcommandArgs = <<>>
    /\ apiAddrStr = DefaultAPI
    /\ versionRun = NoRun
    /\ idOutput = NoId
    /\ stdout = <<>>
    /\ stderr = <<>>
    /\ exitCode = Running
    /\ log = <<>>
    /\ daemon = InitDaemon
    /\ fs \in { [p \in Paths |->
                   CASE p = OutPath -> o
                     [] p = DirPath -> "dir"
                     [] p = FilePath -> "file"
                     [] p = LockedPath -> "denied"
                     [] OTHER -> "absent"] : o \in {"absent", "old"} }
    /\ runs = 0
    /\ lastPin = NoPin

Init == InitProgram /\ cmp = CmpOff

(***************************************************************************)
(* A new invocation: the operating system starts the helper                *)
(***************************************************************************)
Invoke ==
    /\ pc \in {"idle", "exited"}
    /\ runs < MaxRuns
    /\ runs' = runs + 1
    /\ args' \in ArgLists
    /\ pc' = "main"
    /\ subcommand' = ""
    /\ subcommandArgs' = <<>>
    /\ apiAddrStr' = DefaultAPI
    /\ versionRun' = NoRun
    /\ idOutput' = NoId
    /\ stdout' = <<>>
    /\ stderr' = <<>>
    /\ exitCode' = Running
    /\ log' = <<>>
    /\ lastPin' = IF pc = "exited" /\ subcommand = "pin" /\ exitCode = 0
                     /\ Len(subcommandArgs) >= 1
                  THEN [cid |-> ArgText(subcommandArgs[1]), api |-> apiAddrStr,
                        pins |-> daemon[DaemonAt(apiAddrStr)].pins]
                  ELSE NoPin
    /\ UNCHANGED <<daemon, fs, cmp>>

(***************************************************************************)
(* main: global flags and subcommand selection                             *)
(***************************************************************************)
GlobalFlagDefs == [api |-> "string"]
GlobalFlagDefaults == [api |-> DefaultAPI]

ParseGlobal ==
    /\ pc = "main"
    /\ LET r  == FlagParse(GlobalFlagDefs, GlobalFlagDefaults, args)
           p0 == Did(Proc, "parse_global_flags")
       IN  IF r.err # ""
           THEN /\ Commit(exitOnError(p0, r.err), "exited")
                /\ UNCHANGED <<subcommand, subcommandArgs, apiAddrStr>>
           ELSE IF Len(r.rest) > 0
           THEN /\ subcommand' = ArgText(r.rest[1])
                /\ subcommandArgs' = Tail(r.rest)
                /\ apiAddrStr' = r.vals.api
                /\ Commit(p0, "version_check")
           ELSE /\ apiAddrStr' = r.vals.api
                /\ Commit(Fail(p0, "Subcommand required after global flags (e.g., version, pin, add_file)"),
                          "exited")
                /\ UNCHANGED <<subcommand, subcommandArgs>>
    /\ UNCHANGED <<args, versionRun, idOutput, daemon, fs, runs, lastPin, cmp>>

(***************************************************************************)
(* The version gate                                                        *)
(***************************************************************************)
\* a variant that lets a version through when the comparison fails
checkIPFSVersionLenient(run) ==
    IF ~run.ok THEN "failed to execute 'ipfs version --number'"
    ELSE IF TrimSpace(run.out) = <<>> THEN "'ipfs version --number' returned empty output"
    ELSE LET c == compareVersions(TrimPrefix(TrimSpace(run.out), <<"v">>), RequiredIPFSVersion)
         IN  IF ~c.err /\ c.less THEN "installed IPFS version is older than required version"
             ELSE ""

\* checkIPFSVersion, given what the child returned: "" or the error
checkIPFSVersion(run) ==
    IF ~run.ok THEN "failed to execute 'ipfs version --number'"
    ELSE LET installedVersion == TrimSpace(run.out) IN
      IF installedVersion = <<>> THEN "'ipfs version --number' returned empty output"
      ELSE LET c == compareVersions(TrimPrefix(installedVersion, <<"v">>), RequiredIPFSVersion)
           IN  IF c.err THEN "failed to compare IPFS versions"
               ELSE IF c.less THEN "installed IPFS version is older than required version"
               ELSE ""

VersionCheck ==
    /\ pc = "version_check"
    /\ IF subcommand = "version"
       THEN /\ Commit(Proc, "connect")
            /\ UNCHANGED versionRun
       ELSE \E run \in VersionRuns :
            /\ versionRun' = run
            /\ LET p0 == Did(Proc, "exec_ipfs_version") IN
               IF checkIPFSVersion(run) # ""
               THEN Commit(Fail(p0, "IPFS Version Check Failed"), "exited")
               ELSE Commit(p0, "connect")
    /\ UNCHANGED <<args, subcommand, subcommandArgs, apiAddrStr, idOutput, daemon, fs,
                   runs, lastPin, cmp>>

(***************************************************************************)
(* Connection to the daemon and liveness probe                             *)
(***************************************************************************)
\* a variant that goes on to the subcommand whatever the probe answers
ConnectUnprobed ==
    /\ pc = "connect"
    /\ LET p0 == Did(Proc, "new_multiaddr") IN
       IF ~MultiaddrOK(apiAddrStr)
       THEN /\ Commit(Fail(p0, "Invalid API multiaddress"), "exited")
            /\ UNCHANGED idOutput
       ELSE /\ idOutput' = NoId
            /\ Commit(Did(Did(p0, "new_api"), "rpc_id"), "dispatch")
    /\ UNCHANGED <<args, subcommand, subcommandArgs, apiAddrStr, versionRun, daemon, fs,
                   runs, lastPin, cmp>>

Connect ==
    /\ pc = "connect"
    /\ LET p0 == Did(Proc, "new_multiaddr") IN
       IF ~MultiaddrOK(apiAddrStr)
       THEN /\ Commit(Fail(p0, "Invalid API multiaddress"), "exited")
            /\ UNCHANGED idOutput
       ELSE LET p1 == Did(p0, "new_api") IN
         IF ~DialableOK(apiAddrStr)
         THEN /\ Commit(Fail(p1, "Failed to connect to IPFS node"), "exited")
              /\ UNCHANGED idOutput
         ELSE \E answered \in BOOLEAN :
              LET p2 == Did(p1, "rpc_id") IN
              IF ~answered
              THEN /\ Commit(Fail(p2, "Failed to get ID from IPFS node (connection check failed)"),
                             "exited")
                   /\ UNCHANGED idOutput
              ELSE /\ idOutput' = IdOf(DaemonAt(apiAddrStr))
                   /\ Commit(p2, "dispatch")
    /\ UNCHANGED <<args, subcommand, subcommandArgs, apiAddrStr, versionRun, daemon, fs,
                   runs, lastPin, cmp>>

\* the daemon a request of the helper reaches: an RPC call goes through the
\* handle made for the configured address; a child is started as "ipfs ..."
\* without an --api option and talks to the daemon of the tool's own
\* repository
RpcRequests == {"rpc_id", "rpc_pin_add", "rpc_unixfs_add"}
TargetOf(what, addr) == IF what \in RpcRequests THEN DaemonAt(addr) ELSE CliDaemon

(***************************************************************************)
(* Subcommand handlers                                                     *)
(***************************************************************************)
\* the flags each subcommand declares: their types and their defaults
SubcommandFlagDefs(name) ==
    CASE name = "add_file" -> ("file" :> "string")
      [] name = "get_cid_to_file" -> ("cid" :> "string") @@ ("output" :> "string")
      [] name = "get_json_cid" -> ("cid" :> "string")
      [] name = "gen_ipns_key" -> ("key-name" :> "string") @@ ("key-type" :> "string")
      [] name = "publish_ipns" ->
            ("key-name" :> "string") @@ ("path" :> "string") @@ ("lifetime" :> "string")
      [] name = "resolve_ipns" ->
            ("ipns-name" :> "string") @@ ("nocache" :> "bool") @@ ("recursive" :> "bool")
      [] name = "list_pinned_cids" -> ("pin-type" :> "string")
      [] name = "dht_find_providers" -> ("cid" :> "string") @@ ("num-providers" :> "int")
      [] OTHER -> <<>>

SubcommandFlagDefaults(name) ==
    CASE name = "add_file" -> ("file" :> "")
      [] name = "get_cid_to_file" -> ("cid" :> "") @@ ("output" :> "")
      [] name = "get_json_cid" -> ("cid" :> "")
      [] name = "gen_ipns_key" -> ("key-name" :> "") @@ ("key-type" :> "rsa")
      [] name = "publish_ipns" ->
            ("key-name" :> "") @@ ("path" :> "") @@ ("lifetime" :> "24h")
      [] name = "resolve_ipns" ->
            ("ipns-name" :> "") @@ ("nocache" :> TRUE) @@ ("recursive" :> TRUE)
      [] name = "list_pinned_cids" -> ("pin-type" :> "recursive")
      [] name = "dht_find_providers" -> ("cid" :> "") @@ ("num-providers" :> 20)
      [] OTHER -> <<>>

\* <name>Cmd.Parse(subcommandArgs)
ParseSubcommandFlags(name, a) ==
    FlagParse(SubcommandFlagDefs(name), SubcommandFlagDefaults(name), a)

Map(v) == [t |-> "map", v |-> v]

\* the handler is over: main returns unless the process has exited already
Finish(p) == Commit(return(p), "exited")

Dispatched(name) == pc = "dispatch" /\ subcommand = name

HandlerFrame == UNCHANGED <<args, subcommand, subcommandArgs, apiAddrStr, versionRun,
                            idOutput, runs, lastPin, cmp>>

Version ==
    /\ Dispatched("version")
    /\ Finish(printJSONResponse(Proc, TRUE, "", Map([version |-> WrapperVersion])))
    /\ UNCHANGED <<daemon, fs>>
    /\ HandlerFrame

DaemonInfo ==
    /\ Dispatched("daemon_info")
    /\ Finish(printJSONResponse(Proc, TRUE, "", [t |-> "id", v |-> idOutput]))
    /\ UNCHANGED <<daemon, fs>>
    /\ HandlerFrame

\* path.NewPath on "/ipfs/" + cidStr
NewPathOK(ipfsPathStr) == ipfsPathStr[1] = "/ipfs/" /\ cidDecode(ipfsPathStr[2]).ok

\* a variant in which pinning what is pinned already removes the pin
PinAddToggle(ds, d, ipfsPathStr) ==
    LET content == cidDecode(ipfsPathStr[2]).content
    IN  [ds EXCEPT ![d].pins = IF content \in @ THEN @ \ {content} ELSE @ \cup {content}]

\* the daemon pins the content a path points to: its pin set holds the
\* content once, however often it is pinned
PinAdd(ds, d, ipfsPathStr) ==
    LET content == cidDecode(ipfsPathStr[2]).content
    IN  [ds EXCEPT ![d].pins = @ \cup {content}]

\* a variant of the pin handler that does not validate the CID
PinUnvalidated ==
    /\ Dispatched("pin")
    /\ LET r  == ParseSubcommandFlags("pin", subcommandArgs)
           p0 == Did(Proc, "parse_flags")
       IN  IF r.err # "" \/ Len(r.rest) < 1
           THEN Finish(exitOnError(p0, "undefined")) /\ UNCHANGED daemon
           ELSE LET cidStr == ArgText(r.rest[1])
                    p3 == DidWith(p0, "rpc_pin_add", <<cidStr>>)
                IN  /\ daemon' = PinAdd(daemon, DaemonAt(apiAddrStr), <<"/ipfs/", cidStr>>)
                    /\ Finish(printJSONResponse(p3, TRUE, "",
                                Map([cid |-> cidStr, status |-> "pinned"])))
    /\ UNCHANGED fs
    /\ HandlerFrame

Pin ==
    /\ Dispatched("pin")
    /\ LET r  == ParseSubcommandFlags("pin", subcommandArgs)
           p0 == Did(Proc, "parse_flags")
       IN  IF r.err # "" THEN Finish(exitOnError(p0, r.err)) /\ UNCHANGED daemon
           ELSE IF Len(r.rest) < 1
           THEN Finish(Fail(p0, "CID argument required for pin command")) /\ UNCHANGED daemon
           ELSE LET cidStr == ArgText(r.rest[1])
                    p1 == DidWith(p0, "cid_decode", <<cidStr>>)
                IN  IF ~cidDecode(cidStr).ok
                    THEN Finish(Fail(p1, "Invalid CID format")) /\ UNCHANGED daemon
                    ELSE LET ipfsPathStr == <<"/ipfs/", cidStr>>
                             p2 == DidWith(p1, "new_path", ipfsPathStr)
                         IN  IF ~NewPathOK(ipfsPathStr)
                             THEN Finish(Fail(p2, "Error creating IPFS path object"))
                                  /\ UNCHANGED daemon
                             ELSE \E pinned \in BOOLEAN :
                                  LET p3 == DidWith(p2, "rpc_pin_add", ipfsPathStr) IN
                                  IF ~pinned
                                  THEN Finish(Fail(Did(p3, "request_error"), "Failed to pin IPFS path"))
                                       /\ UNCHANGED daemon
                                  ELSE /\ daemon' = PinAdd(daemon, DaemonAt(apiAddrStr), ipfsPathStr)
                                       /\ Finish(printJSONResponse(p3, TRUE, "",
                                            Map([cid |-> cidStr, path |-> ipfsPathStr,
                                                 status |-> "pinned"])))
    /\ UNCHANGED fs
    /\ HandlerFrame

\* a variant of the ingestion that pins what it adds
ipfsAddPinning(ds, d, content) ==
    [ds EXCEPT ![d].blocks = @ \cup {content}, ![d].pins = @ \cup {content}]

\* the daemon adds content, unpinned: Unixfs().Add without options, and
\* "ipfs add --pin=false"
ipfsAdd(ds, d, content) == [ds EXCEPT ![d].blocks = @ \cup {content}]

\* a variant of the add_file handler that hands any path to the daemon
AddFileUnchecked ==
    /\ Dispatched("add_file")
    /\ LET r  == ParseSubcommandFlags("add_file", subcommandArgs)
           p0 == Did(Proc, "parse_flags")
       IN  IF r.err # "" THEN Finish(exitOnError(p0, r.err)) /\ UNCHANGED daemon
           ELSE LET p2 == DidWith(Did(p0, "new_serial_file"), "rpc_unixfs_add",
                                   <<r.vals["file"]>>)
                IN  /\ daemon' = ipfsAdd(daemon, DaemonAt(apiAddrStr), "paper")
                    /\ Finish(printJSONResponse(p2, TRUE, "", Map([cid |-> PaperCid])))
    /\ UNCHANGED fs
    /\ HandlerFrame

AddFile ==
    /\ Dispatched("add_file")
    /\ LET r  == ParseSubcommandFlags("add_file", subcommandArgs)
           p0 == Did(Proc, "parse_flags")
       IN  IF r.err # "" THEN Finish(exitOnError(p0, r.err)) /\ UNCHANGED daemon
           ELSE IF r.vals["file"] = ""
           THEN Finish(Fail(p0, "Argument --file <path> is required for add_file command"))
                /\ UNCHANGED daemon
           ELSE LET filePath == r.vals["file"]
                    p1 == DidWith(p0, "stat", <<filePath>>)
                IN  IF filePath \notin Paths \/ fs[filePath] = "absent"
                    THEN Finish(Fail(p1, "File not found")) /\ UNCHANGED daemon
                    ELSE IF fs[filePath] = "denied"
                    THEN Finish(Fail(p1, "Error accessing file")) /\ UNCHANGED daemon
                    ELSE IF fs[filePath] = "dir"
                    THEN Finish(Fail(p1, "Path is a directory, please provide a file to add."))
                         /\ UNCHANGED daemon
                    ELSE \E answer \in {"no_node", "error", "added", "undefined"} :
                         LET p2 == DidWith(Did(p1, "new_serial_file"), "rpc_unixfs_add",
                                           <<filePath>>)
                         IN  IF answer = "no_node"
                             THEN Finish(Fail(Did(p1, "new_serial_file"),
                                              "Error creating file node"))
                                  /\ UNCHANGED daemon
                             ELSE IF answer = "error"
                             THEN Finish(Fail(Did(p2, "request_error"), "Failed to add file to IPFS"))
                                  /\ UNCHANGED daemon
                             ELSE /\ daemon' = ipfsAdd(daemon, DaemonAt(apiAddrStr), "paper")
                                  /\ LET cidValue == IF answer = "undefined" THEN "" ELSE PaperCid
                                         p3 == DidWith(p2, "root_cid", <<cidValue>>)
                                     IN  IF cidValue = ""
                                         THEN Finish(Fail(p3, "Failed to get a defined CID for file"))
                                         ELSE Finish(printJSONResponse(p3, TRUE, "",
                                                       Map([cid |-> cidValue])))
    /\ UNCHANGED fs
    /\ HandlerFrame

\* os.Remove
osRemove(files, path) == [files EXCEPT ![path] = "absent"]

\* what "ipfs cat" leaves in the file its standard output is connected to
CatOutcomes == {"complete", "failed_empty", "failed_partial"}
AfterCat(files, path, outcome) ==
    [files EXCEPT ![path] = CASE outcome = "complete" -> "complete"
                              [] outcome = "failed_partial" -> "partial"
                              [] OTHER -> "empty"]

GetCidToFile ==
    /\ Dispatched("get_cid_to_file")
    /\ LET r  == ParseSubcommandFlags("get_cid_to_file", subcommandArgs)
           p0 == Did(Proc, "parse_flags")
       IN  IF r.err # "" THEN Finish(exitOnError(p0, r.err)) /\ UNCHANGED fs
           ELSE IF r.vals["cid"] = ""
           THEN Finish(Fail(p0, "Argument --cid <cid_string> is required")) /\ UNCHANGED fs
           ELSE IF r.vals["output"] = ""
           THEN Finish(Fail(p0, "Argument --output <output_path> is required")) /\ UNCHANGED fs
           ELSE LET cidStr == r.vals["cid"]
                    outputPath == r.vals["output"]
                    p1 == DidWith(p0, "cid_decode", <<cidStr>>)
                IN  IF ~cidDecode(cidStr).ok
                    THEN Finish(Fail(p1, "Invalid CID format")) /\ UNCHANGED fs
                    ELSE LET p2 == DidWith(p1, "create_file", <<outputPath>>) IN
                      IF outputPath \notin Paths \/ fs[outputPath] = "dir"
                      THEN Finish(Fail(p2, "Error creating output file")) /\ UNCHANGED fs
                      ELSE \E outcome \in CatOutcomes :
                           LET p3  == DidWith(p2, "exec_ipfs_cat", <<cidStr>>)
                               fs1 == AfterCat(fs, outputPath, outcome)
                           IN  IF outcome # "complete"
                               THEN LET p4 == Fail(Did(p3, "request_error"), "Error executing 'ipfs cat'") IN
                                    \* the statement after printJSONResponse runs only
                                    \* if the process is still running
                                    IF p4.exitCode = Running
                                    THEN /\ fs' = osRemove(fs1, outputPath)
                                         /\ Finish(DidWith(p4, "remove_file", <<outputPath>>))
                                    ELSE /\ fs' = fs1
                                         /\ Finish(p4)
                               ELSE /\ fs' = fs1
                                    /\ Finish(printJSONResponse(p3, TRUE, "",
                                         Map([message |-> "File downloaded successfully",
                                              cid |-> cidStr, output_path |-> outputPath])))
    /\ UNCHANGED daemon
    /\ HandlerFrame

\* JSON texts the model reads, and json.Unmarshal into an interface{}
JsonTexts == {"{\"a\":1}", "[1,2]", "[]", "\"text\"", "42", "true", "false", "null"}
NonJsonTexts == {"not json"}

\* a variant that takes any text for a JSON document
jsonUnmarshalAny(bytes) == [ok |-> TRUE, val |-> [t |-> "json", v |-> bytes]]

jsonUnmarshal(bytes) ==
    IF bytes \notin JsonTexts THEN [ok |-> FALSE, val |-> Nil]
    ELSE IF bytes = "null" THEN [ok |-> TRUE, val |-> Nil]
    ELSE [ok |-> TRUE, val |-> [t |-> "json", v |-> bytes]]

\* results of a child that prints one text
CatRuns ==
    { [ok |-> FALSE, out |-> ""] }
    \cup { [ok |-> TRUE, out |-> o] : o \in JsonTexts \cup NonJsonTexts \cup {""} }

GetJsonCid ==
    /\ Dispatched("get_json_cid")
    /\ LET r  == ParseSubcommandFlags("get_json_cid", subcommandArgs)
           p0 == Did(Proc, "parse_flags")
       IN  IF r.err # "" THEN Finish(exitOnError(p0, r.err))
           ELSE IF r.vals["cid"] = ""
           THEN Finish(Fail(p0, "Argument --cid <cid_string> is required"))
           ELSE LET cidStr == r.vals["cid"]
                    decodedCid == cidDecode(cidStr)
                    p1 == DidWith(p0, "cid_decode", <<cidStr>>)
                IN  IF ~decodedCid.ok
                    THEN Finish(Fail(p1, "Invalid CID format"))
                    ELSE \E run \in CatRuns :
                         LET p2 == DidWith(p1, "exec_ipfs_cat", <<cidString(decodedCid)>>)
                             p3 == DidWith(p2, "cat_stdout", <<run.out>>)
                             doc == jsonUnmarshal(run.out)
                         IN  IF ~run.ok THEN Finish(Fail(Did(p2, "request_error"), "Error executing 'ipfs cat'"))
                             ELSE IF ~doc.ok
                             THEN Finish(Fail(p3, "Failed to unmarshal JSON from CID"))
                             ELSE Finish(printJSONResponse(p3, TRUE, "", doc.val))
    /\ UNCHANGED <<daemon, fs>>
    /\ HandlerFrame

\* standard input of add_json, and results of the child "ipfs add -Q"
StdinTexts == {"", "not json", "{\"a\":1}", "null"}
StdinReads ==
    { [ok |-> FALSE, bytes |-> ""] } \cup { [ok |-> TRUE, bytes |-> b] : b \in StdinTexts }
\* what a child printed is a sequence of pieces: words, white-space
\* characters, and the namespace prefixes "/ipfs/" and "/ipns/"
AddRuns ==
    { [ok |-> FALSE, out |-> <<>>] }
    \cup { [ok |-> TRUE, out |-> o] :
             o \in { <<JsonCid, "\n">>,
                     <<" ", JsonCid>>,
                     <<"added", " ", JsonCid, "\n">>,
                     <<InvalidCid, "\n">>,
                     <<"\n">>,
                     <<>> } }

\* a variant that takes any text for a CID
cidDecodeTextAny(pieces) == [ok |-> TRUE, version |-> 1, content |-> "jsondoc"]

\* cid.Decode of a text given by its pieces
cidDecodeText(pieces) ==
    IF Len(pieces) = 1 THEN cidDecode(pieces[1]) ELSE cidDecode("")

\* the text as one string: the model's payloads hold single words
StringOf(pieces) == IF Len(pieces) = 1 THEN pieces[1] ELSE ""

AddJson ==
    /\ Dispatched("add_json")
    /\ LET r  == ParseSubcommandFlags("add_json", subcommandArgs)
           p0 == Did(Proc, "parse_flags")
       IN  IF r.err # "" THEN Finish(exitOnError(p0, r.err)) /\ UNCHANGED daemon
           ELSE \E read \in StdinReads :
                LET jsonDataBytes == read.bytes
                    p1 == DidWith(p0, "read_stdin", <<jsonDataBytes>>)
                IN
                IF ~read.ok
                THEN Finish(Fail(Did(p0, "read_stdin_failed"),
                                 "Error reading JSON data from stdin"))
                     /\ UNCHANGED daemon
                ELSE IF jsonDataBytes = ""
                THEN Finish(Fail(p1, "No JSON data received from stdin")) /\ UNCHANGED daemon
                ELSE IF ~jsonUnmarshal(jsonDataBytes).ok
                THEN Finish(Fail(p1, "Invalid JSON data received from stdin"))
                     /\ UNCHANGED daemon
                ELSE \E run \in AddRuns :
                     LET p2 == DidWith(p1, "exec_ipfs_add",
                                       <<"-Q", "--cid-version", "1", "--pin=false",
                                         jsonDataBytes>>)
                     IN  IF ~run.ok
                         THEN Finish(Fail(Did(p2, "request_error"), "Error executing 'ipfs add' for JSON data"))
                              /\ UNCHANGED daemon
                         ELSE LET cidStr == TrimSpace(run.out)
                                  p3 == DidWith(p2, "cid_decode_output", cidStr)
                              IN
                              /\ daemon' = ipfsAdd(daemon, CliDaemon, "jsondoc")
                              /\ IF ~cidDecodeText(cidStr).ok
                                 THEN Finish(Fail(p3, "'ipfs add -Q' returned an invalid CID"))
                                 ELSE Finish(printJSONResponse(p3, TRUE, "",
                                               Map([cid |-> StringOf(cidStr)])))
    /\ UNCHANGED fs
    /\ HandlerFrame

\* results of the child "ipfs key gen"
KeyGenRuns ==
    { [ok |-> FALSE, out |-> <<>>] }
    \cup { [ok |-> TRUE, out |-> o] :
             o \in { <<"k51id", " ", "mykey", "\n">>,
                     <<"k51id", " ", "my_key", "\n">>,
                     <<"\t", "k51id", "\n">>,
                     <<"generated", "\n", "k51id", " ", "mykey", "\n">>,
                     <<" ", "\n">>,
                     <<>> } }

\* a variant that reports the name the tool printed
keyGenPayloadEcho(keyName, outputParts) ==
    Map([Name |-> IF Len(outputParts) >= 2 THEN outputParts[2] ELSE keyName,
         Id |-> outputParts[1]])

\* the payload of gen_ipns_key: the name asked for and the first field of
\* the output
keyGenPayload(keyName, outputParts) == Map([Name |-> keyName, Id |-> outputParts[1]])

GenIpnsKey ==
    /\ Dispatched("gen_ipns_key")
    /\ LET r  == ParseSubcommandFlags("gen_ipns_key", subcommandArgs)
           p0 == Did(Proc, "parse_flags")
       IN  IF r.err # "" THEN Finish(exitOnError(p0, r.err)) /\ UNCHANGED daemon
           ELSE IF r.vals["key-name"] = ""
           THEN Finish(Fail(p0, "Argument --key-name is required")) /\ UNCHANGED daemon
           ELSE \E run \in KeyGenRuns :
                LET keyName == r.vals["key-name"]
                    p1 == DidWith(p0, "exec_ipfs_key_gen",
                                  <<keyName, "--type", r.vals["key-type"]>>)
                    p2 == DidWith(p1, "child_stdout", run.out)
                    outputParts == Fields(TrimSpace(run.out))
                IN  IF ~run.ok
                    THEN Finish(Fail(Did(p1, "request_error"), "Error executing 'ipfs key gen'")) /\ UNCHANGED daemon
                    ELSE /\ daemon' = [daemon EXCEPT ![CliDaemon].keys = @ \cup {keyName}]
                         /\ IF Len(outputParts) < 1
                            THEN Finish(Fail(p2, "'ipfs key gen' produced unexpected output"))
                            ELSE Finish(printJSONResponse(p2, TRUE, "",
                                          keyGenPayload(keyName, outputParts)))
    /\ UNCHANGED fs
    /\ HandlerFrame

KeyListRuns ==
    { [ok |-> FALSE, out |-> <<>>] }
    \cup { [ok |-> TRUE, out |-> o] :
             o \in { <<>>,
                     <<"k51self", " ", "self", "\n">>,
                     <<"k51self", " ", "self", "\n",
                       "k51id", "\n",
                       "\n",
                       " ", "\n",
                       "k51other", " ", "my", " ", "key", "\n">> } }

\* the loop over the lines of "ipfs key list -l": a line with fewer than
\* two fields adds nothing and writes nothing
RECURSIVE keysOf(_)
keysOf(outputLines) ==
    IF outputLines = <<>> THEN <<>>
    ELSE LET line == Head(outputLines)
             parts == Fields(line)
         IN  IF line # <<>> /\ Len(parts) >= 2
             THEN <<[Id |-> parts[1], Name |-> parts[2]]>> \o keysOf(Tail(outputLines))
             ELSE keysOf(Tail(outputLines))

ListIpnsKeys ==
    /\ Dispatched("list_ipns_keys_cmd")
    /\ LET r  == ParseSubcommandFlags("list_ipns_keys_cmd", subcommandArgs)
           p0 == Did(Proc, "parse_flags")
       IN  IF r.err # "" THEN Finish(exitOnError(p0, r.err))
           ELSE \E run \in KeyListRuns :
                LET p1 == DidWith(p0, "exec_ipfs_key_list", <<"-l">>) IN
                IF ~run.ok THEN Finish(Fail(Did(p1, "request_error"), "Error executing 'ipfs key list -l'"))
                ELSE LET outputLines == Split(TrimSpace(run.out), "\n")
                         p2 == DidWith(p1, "child_stdout", run.out)
                     IN  Finish(printJSONResponse(p2, TRUE, "",
                              [t |-> "list", v |-> keysOf(outputLines)]))
    /\ UNCHANGED <<daemon, fs>>
    /\ HandlerFrame

\* results of "ipfs name publish"
PublishedLine == <<"Published", " ", "to", " ", "k51name", ":", " ", "/ipfs/", TestCid>>

PublishRuns ==
    { [ok |-> FALSE, out |-> <<>>] }
    \cup { [ok |-> TRUE, out |-> o] :
             o \in { PublishedLine \o <<"\n">>,
                     <<"Published", " ", "to", " ", "my", " ", "key", ":", " ",
                       "/ipns/", "a", ":", "b">>,
                     <<"published", " ", "to", " ", "k51name", ":", " ", "/ipfs/", TestCid>>,
                     <<"Published", " ", "to", " ", "k51name", ":", "/ipfs/", TestCid>>,
                     <<"Published", " ", "to", " ", ":", " ", "/ipfs/", TestCid>>,
                     <<"Published", " ", "to", " ", "k51name", ":", " ", "\n">>,
                     PublishedLine \o <<"\n">> \o PublishedLine \o <<"\n">>,
                     <<"Published", " ", "to", " ", "k51", "\n", "name", ":", " ",
                       "/ipfs/", TestCid, "\n">>,
                     <<"\n">>,
                     <<>> } }

\* regexp `^Published to ([^:]+): (.*)$` on a text given by its pieces: the
\* name is what stands before the first colon (a class like [^:] takes a
\* line break, the dot does not), the value what follows the colon and the
\* blank, to the end of the text
FindStringSubmatch(outputStr) ==
    LET n == Len(outputStr)
        colons == {c \in 5..n : outputStr[c] = ":"}
        c == IF colons = {} THEN 0 ELSE CHOOSE x \in colons : \A y \in colons : x <= y
    IN  IF /\ n >= 7
           /\ SubSeq(outputStr, 1, 4) = <<"Published", " ", "to", " ">>
           /\ c >= 6
           /\ c + 1 <= n
           /\ outputStr[c + 1] = " "
           /\ \A k \in (c + 2)..n : outputStr[k] # "\n"
        THEN [ok |-> TRUE, name |-> SubSeq(outputStr, 5, c - 1),
              value |-> SubSeq(outputStr, c + 2, n)]
        ELSE [ok |-> FALSE, name |-> <<>>, value |-> <<>>]

PublishIpns ==
    /\ Dispatched("publish_ipns")
    /\ LET r  == ParseSubcommandFlags("publish_ipns", subcommandArgs)
           p0 == Did(Proc, "parse_flags")
       IN  IF r.err # "" THEN Finish(exitOnError(p0, r.err)) /\ UNCHANGED daemon
           ELSE IF r.vals["key-name"] = ""
           THEN Finish(Fail(p0, "Argument --key-name is required")) /\ UNCHANGED daemon
           ELSE IF r.vals["path"] = ""
           THEN Finish(Fail(p0, "Argument --path (IPFS path) is required")) /\ UNCHANGED daemon
           ELSE IF ~HasNamespacePrefix(r.vals["path"])
           THEN Finish(Fail(p0, "Argument --path must start with /ipfs/ or /ipns/"))
                /\ UNCHANGED daemon
           ELSE \E run \in PublishRuns :
                LET p1 == DidWith(p0, "exec_ipfs_name_publish",
                                  <<r.vals["key-name"], r.vals["path"], r.vals["lifetime"],
                                    "--allow-offline=true">>)
                    p2 == DidWith(p1, "child_stdout", run.out)
                    matches == FindStringSubmatch(TrimSpace(run.out))
                IN  IF ~run.ok
                    THEN Finish(Fail(Did(p1, "request_error"), "Error executing 'ipfs name publish'"))
                         /\ UNCHANGED daemon
                    ELSE /\ daemon' = [daemon EXCEPT ![CliDaemon].names =
                                          @ \cup {<<r.vals["key-name"], r.vals["path"]>>}]
                         /\ IF ~matches.ok
                            THEN Finish(Fail(p2, "'ipfs name publish' produced unexpected output"))
                            ELSE Finish(printJSONResponse(p2, TRUE, "",
                                          Map([Name |-> matches.name,
                                               Value |-> matches.value])))
    /\ UNCHANGED fs
    /\ HandlerFrame

ResolveRuns ==
    { [ok |-> FALSE, out |-> <<>>] }
    \cup { [ok |-> TRUE, out |-> o] :
             o \in { <<"/ipfs/", TestCid, "\n">>,
                     <<"/ipns/", "k51other">>,
                     <<" ", "/ipfs/", TestCid>>,
                     <<"ipfs/", TestCid, "\n">>,
                     <<"no", " ", "link", " ", "/ipfs/", TestCid, "\n">>,
                     <<"\n">>,
                     <<>> } }

\* a prefix test that lets every text through
HasPrefixAny(pieces) == TRUE

\* strings.HasPrefix(s, "/ipfs/") || strings.HasPrefix(s, "/ipns/") on a
\* text given by its pieces
HasPrefixIpfsOrIpns(pieces) == pieces # <<>> /\ pieces[1] \in {"/ipfs/", "/ipns/"}

\* how "ipfs name resolve" reads its arguments: a boolean option that is
\* not given keeps the tool's default, which is false for --nocache and
\* true for --recursive (-r)
ipfsNameResolveMode(cmdArgs) ==
    LET given(x) == \E i \in DOMAIN cmdArgs : cmdArgs[i] = x
    IN  [nocache   |-> given("--nocache=true") \/ given("--nocache"),
         recursive |-> ~(given("-r=false") \/ given("--recursive=false"))]

\* a variant of the handler that starts the resolve command once more when
\* it has failed
ResolveIpnsRetrying ==
    /\ Dispatched("resolve_ipns")
    /\ LET r  == ParseSubcommandFlags("resolve_ipns", subcommandArgs)
           p0 == Did(Proc, "parse_flags")
       IN  IF r.err # "" THEN Finish(exitOnError(p0, r.err))
           ELSE IF r.vals["ipns-name"] = ""
           THEN Finish(Fail(p0, "Argument --ipns-name is required"))
           ELSE \E first \in ResolveRuns, run \in ResolveRuns :
                LET cmdArgs == <<"name", "resolve", r.vals["ipns-name"]>>
                                 \o (IF r.vals["nocache"] THEN <<"--nocache=true">> ELSE <<>>)
                                 \o (IF r.vals["recursive"] THEN <<"-r=true">> ELSE <<>>)
                    p1 == IF first.ok
                          THEN DidWith(p0, "exec_ipfs_name_resolve", cmdArgs)
                          ELSE DidWith(Did(DidWith(p0, "exec_ipfs_name_resolve", cmdArgs),
                                           "request_error"),
                                       "exec_ipfs_name_resolve", cmdArgs)
                    p2 == DidWith(p1, "child_stdout", run.out)
                    resolvedPath == TrimSpace(run.out)
                IN  /\ first.ok => run = first
                    /\ IF ~run.ok
                       THEN Finish(Fail(Did(p1, "request_error"),
                                        "Error executing 'ipfs name resolve'"))
                       ELSE IF ~HasPrefixIpfsOrIpns(resolvedPath)
                       THEN Finish(Fail(p2, "'ipfs name resolve' returned an unexpected path format"))
                       ELSE Finish(printJSONResponse(p2, TRUE, "", Map([Path |-> resolvedPath])))
    /\ UNCHANGED <<daemon, fs>>
    /\ HandlerFrame

ResolveIpns ==
    /\ Dispatched("resolve_ipns")
    /\ LET r  == ParseSubcommandFlags("resolve_ipns", subcommandArgs)
           p0 == Did(Proc, "parse_flags")
       IN  IF r.err # "" THEN Finish(exitOnError(p0, r.err))
           ELSE IF r.vals["ipns-name"] = ""
           THEN Finish(Fail(p0, "Argument --ipns-name is required"))
           ELSE \E run \in ResolveRuns :
                LET cmdArgs == <<"name", "resolve", r.vals["ipns-name"]>>
                                 \o (IF r.vals["nocache"] THEN <<"--nocache=true">> ELSE <<>>)
                                 \o (IF r.vals["recursive"] THEN <<"-r=true">> ELSE <<>>)
                    p1 == DidWith(p0, "exec_ipfs_name_resolve", cmdArgs)
                    p2 == DidWith(p1, "child_stdout", run.out)
                    resolvedPath == TrimSpace(run.out)
                IN  IF ~run.ok THEN Finish(Fail(Did(p1, "request_error"), "Error executing 'ipfs name resolve'"))
                    ELSE IF ~HasPrefixIpfsOrIpns(resolvedPath)
                    THEN Finish(Fail(p2, "'ipfs name resolve' returned an unexpected path format"))
                    ELSE Finish(printJSONResponse(p2, TRUE, "", Map([Path |-> resolvedPath])))
    /\ UNCHANGED <<daemon, fs>>
    /\ HandlerFrame

PinLsRuns ==
    { [ok |-> FALSE, out |-> <<>>] }
    \cup { [ok |-> TRUE, out |-> o] :
             o \in { <<>>,
                     <<TestCid, " ", "recursive", "\n">>,
                     <<TestCid, " ", "recursive", "\n",
                       JsonCid, "\n",
                       "\n",
                       " ", "\n",
                       "Error:", " ", "lock", "\n",
                       " ", JsonCid, " ", "indirect", " ", "through", " ", TestCid, "\n",
                       TestCid, "\t", "direct", "\n">>,
                     <<TestCid, " ", "recursive", "\n",
                       JsonCid, " ", "unknown", "\n">> } }

\* the loop over the lines of "ipfs pin ls": the mapping as a set of pairs
\* (a later line for the same CID replaces an earlier one)
RECURSIVE cidsWithTypesOf(_, _)
cidsWithTypesOf(outputLines, acc) ==
    IF outputLines = <<>> THEN acc
    ELSE LET trimmedLine == TrimSpace(Head(outputLines))
             parts == Fields(trimmedLine)
         IN  IF trimmedLine # <<>> /\ Len(parts) >= 2 /\ cidDecode(parts[1]).ok
             THEN cidsWithTypesOf(Tail(outputLines),
                    {e \in acc : e[1] # parts[1]} \cup {<<parts[1], parts[2]>>})
             ELSE cidsWithTypesOf(Tail(outputLines), acc)

\* the warnings of that loop, written to standard error as plain text
RECURSIVE pinWarningsOf(_)
pinWarningsOf(outputLines) ==
    IF outputLines = <<>> THEN <<>>
    ELSE LET trimmedLine == TrimSpace(Head(outputLines))
             parts == Fields(trimmedLine)
         IN  (IF trimmedLine = <<>> THEN <<>>
              ELSE IF Len(parts) >= 2
              THEN (IF cidDecode(parts[1]).ok THEN <<>> ELSE <<Text("warning: non-CID")>>)
              ELSE IF Len(parts) = 1 THEN <<Text("warning: not enough parts")>>
              ELSE <<>>) \o pinWarningsOf(Tail(outputLines))

\* a variant that lets one more pin type through
validPinTypesAndBogus == {"recursive", "direct", "indirect", "all", "bogus"}

validPinTypes == {"recursive", "direct", "indirect", "all"}

\* a variant of the handler for which a line it cannot use is fatal
ListPinnedCidsStrict ==
    /\ Dispatched("list_pinned_cids")
    /\ LET r  == ParseSubcommandFlags("list_pinned_cids", subcommandArgs)
           p0 == Did(Proc, "parse_flags")
       IN  IF r.err # "" THEN Finish(exitOnError(p0, r.err))
           ELSE IF r.vals["pin-type"] \notin validPinTypes
           THEN Finish(Fail(p0, "Invalid --pin-type value. Must be one of recursive, direct, indirect, all."))
           ELSE \E run \in PinLsRuns :
                LET p1 == DidWith(p0, "exec_ipfs_pin_ls", <<"--type=", r.vals["pin-type"]>>) IN
                IF ~run.ok THEN Finish(Fail(Did(p1, "request_error"), "Error executing 'ipfs pin ls'"))
                ELSE LET outputLines == Split(TrimSpace(run.out), "\n")
                         p2 == DidWith(p1, "child_stdout", run.out)
                     IN  IF pinWarningsOf(outputLines) # <<>>
                         THEN Finish(Fail(p2, "Error executing 'ipfs pin ls'"))
                         ELSE Finish(printJSONResponse(p2, TRUE, "",
                                [t |-> "mapping", v |-> cidsWithTypesOf(outputLines, {})]))
    /\ UNCHANGED <<daemon, fs>>
    /\ HandlerFrame

ListPinnedCids ==
    /\ Dispatched("list_pinned_cids")
    /\ LET r  == ParseSubcommandFlags("list_pinned_cids", subcommandArgs)
           p0 == Did(Proc, "parse_flags")
       IN  IF r.err # "" THEN Finish(exitOnError(p0, r.err))
           ELSE IF r.vals["pin-type"] \notin validPinTypes
           THEN Finish(Fail(p0, "Invalid --pin-type value. Must be one of recursive, direct, indirect, all."))
           ELSE \E run \in PinLsRuns :
                LET p1 == DidWith(p0, "exec_ipfs_pin_ls", <<"--type=", r.vals["pin-type"]>>) IN
                IF ~run.ok THEN Finish(Fail(Did(p1, "request_error"), "Error executing 'ipfs pin ls'"))
                ELSE LET outputLines == Split(TrimSpace(run.out), "\n")
                         p2 == DidWith(p1, "child_stdout", run.out)
                         p3 == [p2 EXCEPT !.stderr = @ \o pinWarningsOf(outputLines)]
                     IN  Finish(printJSONResponse(p3, TRUE, "",
                              [t |-> "mapping", v |-> cidsWithTypesOf(outputLines, {})]))
    /\ UNCHANGED <<daemon, fs>>
    /\ HandlerFrame

FindProvsRuns ==
    { [ok |-> FALSE, out |-> <<>>] }
    \cup { [ok |-> TRUE, out |-> o] :
             o \in { <<>>, << <<"12D3KooWPeer">> >>,
                     << <<"12D3KooWPeer">>, <<>>, <<"QmPeer">> >> } }

\* the loop over the lines of "ipfs routing findprovs": non-empty lines
RECURSIVE providersOf(_)
providersOf(lines) ==
    IF lines = <<>> THEN <<>>
    ELSE (IF Head(lines) # <<>> THEN <<Head(lines)>> ELSE <<>>) \o providersOf(Tail(lines))

\* a variant of the handler that reports a malformed CID as an error
DhtFindProvidersStrict ==
    /\ Dispatched("dht_find_providers")
    /\ Finish(Fail(Did(Proc, "parse_flags"), "Invalid CID format"))
    /\ UNCHANGED <<daemon, fs>>
    /\ HandlerFrame

DhtFindProviders ==
    /\ Dispatched("dht_find_providers")
    /\ LET r  == ParseSubcommandFlags("dht_find_providers", subcommandArgs)
           p0 == Did(Proc, "parse_flags")
       IN  IF r.err # "" THEN Finish(exitOnError(p0, r.err))
           ELSE IF r.vals["cid"] = ""
           THEN Finish(Fail(p0, "Argument --cid is required"))
           ELSE LET cidStr == r.vals["cid"]
                    p1 == DidWith(p0, "cid_decode", <<cidStr>>)
                IN  IF ~cidDecode(cidStr).ok
                    THEN Finish(printJSONResponse(p1, TRUE, "", Map([providers |-> <<>>])))
                    ELSE \E run \in FindProvsRuns :
                         LET p2 == DidWith(p1, "exec_ipfs_routing_findprovs",
                                           <<"--num-providers=",
                                             IF r.vals["num-providers"] = 5 THEN "5" ELSE "20",
                                             cidStr>>)
                         IN  IF ~run.ok
                             THEN Finish(Fail(Did(p2, "request_error"), "Error executing 'ipfs routing findprovs'"))
                             ELSE Finish(printJSONResponse(p2, TRUE, "",
                                           Map([providers |-> providersOf(run.out)])))
    /\ UNCHANGED <<daemon, fs>>
    /\ HandlerFrame

\* a variant of the default case that accepts any subcommand name
UnknownSubcommandAccepted ==
    /\ pc = "dispatch"
    /\ subcommand \notin KnownSubcommands
    /\ Finish(printJSONResponse(Proc, TRUE, "", Nil))
    /\ UNCHANGED <<daemon, fs>>
    /\ HandlerFrame

\* the default case of the switch
UnknownSubcommand ==
    /\ pc = "dispatch"
    /\ subcommand \notin KnownSubcommands
    /\ Finish(Fail(Proc, "Unknown subcommand"))
    /\ UNCHANGED <<daemon, fs>>
    /\ HandlerFrame

(***************************************************************************)
(* The helper                                                              *)
(***************************************************************************)
Next ==
    \/ Invoke
    \/ ParseGlobal
    \/ VersionCheck
    \/ Connect
    \/ Version
    \/ DaemonInfo
    \/ Pin
    \/ AddFile
    \/ GetCidToFile
    \/ GetJsonCid
    \/ AddJson
    \/ GenIpnsKey
    \/ ListIpnsKeys
    \/ PublishIpns
    \/ ResolveIpns
    \/ ListPinnedCids
    \/ DhtFindProviders
    \/ UnknownSubcommand

Spec == Init /\ [][Next]_vars

TypeOK ==
    /\ pc \in {"idle", "main", "version_check", "connect", "dispatch", "exited"}
    /\ exitCode \in {Running, 0, 1, 2}
    /\ runs \in 0..MaxRuns
    /\ (pc = "exited") = (exitCode # Running)

(***************************************************************************)
(* compareVersions on its own: three version strings are drawn and every   *)
(* comparison among them is made                                           *)
(***************************************************************************)
CmpStrings ==
    { <<"0", ".", "3", "3", ".", "0">>,
      <<"0", ".", "3", "4", ".", "1">>,
      <<"1", ".", "0", ".", "0">>,
      <<"0", ".", "9", ".", "9">>,
      <<"0", ".", "3", "4", ".", "0">>,
      <<"0", ".", "3", "4", ".", "1", "0">>,
      <<" ", "0", ".", "3", "4", ".", "1", "\n">>,
      <<"0", "0", ".", "3", "4", ".", "0", "1">>,
      <<"0", ".", "3", "4", ".", "-", "1">>,
      <<"0", ".", "3", "4">>,
      <<"0", ".", "3", "4", ".", "1", ".", "2">>,
      <<"0", ".", "x", ".", "1">>,
      <<"v", "0", ".", "3", "4", ".", "1">>,
      <<>> }

InitCmp ==
    /\ InitProgram
    /\ cmp \in { [phase |-> "input", a |-> a, b |-> b, c |-> c] :
                   a \in CmpStrings, b \in CmpStrings, c \in CmpStrings }

CmpApply ==
    /\ cmp.phase = "input"
    /\ cmp' = [phase |-> "done", a |-> cmp.a, b |-> cmp.b, c |-> cmp.c,
               aa |-> compareVersions(cmp.a, cmp.a),
               ab |-> compareVersions(cmp.a, cmp.b),
               ba |-> compareVersions(cmp.b, cmp.a),
               bc |-> compareVersions(cmp.b, cmp.c),
               ac |-> compareVersions(cmp.a, cmp.c)]
    /\ UNCHANGED <<args, pc, subcommand, subcommandArgs, apiAddrStr, versionRun, idOutput,
                   stdout, stderr, exitCode, log, daemon, fs, runs, lastPin>>

NextCmp == CmpApply

SpecCmp == InitCmp /\ [][NextCmp]_vars

(***************************************************************************)
(* Vocabulary of the properties                                            *)
(***************************************************************************)
Done(what) == \E i \in DOMAIN log : log[i][1] = what
DoneWith(what, argv) == \E i \in DOMAIN log : log[i] = <<what, argv>>

JsonIdx(stream) == {i \in DOMAIN stream : stream[i].kind = "json"}
SuccessOn(stream) == {i \in JsonIdx(stream) : stream[i].body.success}
FailureOn(stream) == {i \in JsonIdx(stream) : ~stream[i].body.success}

SuccessEmitted == SuccessOn(stdout) # {} \/ SuccessOn(stderr) # {}
FailureEmitted == FailureOn(stdout) # {} \/ FailureOn(stderr) # {}

\* the run has ended with exactly one envelope, a failure on standard error
\* with the given message, and exit code 1
EndedInFailure(msgs) ==
    /\ pc = "exited"
    /\ exitCode = 1
    /\ stdout = <<>>
    /\ Cardinality(JsonIdx(stderr)) = 1
    /\ \A i \in JsonIdx(stderr) :
         /\ ~stderr[i].body.success
         /\ stderr[i].body.error \in msgs

ConnectivityErrors ==
    { "Invalid API multiaddress",
      "Failed to connect to IPFS node",
      "Failed to get ID from IPFS node (connection check failed)" }

VersionErrors == { "IPFS Version Check Failed" }

DispatchErrors ==
    { "Subcommand required after global flags (e.g., version, pin, add_file)",
      "Unknown subcommand" }

AllErrors ==
    { stderr[i].body.error : i \in FailureOn(stderr) }

\* what only a subcommand handler does
ConnectionEvents == {"new_multiaddr", "new_api", "rpc_id"}
HandlerEvents ==
    { "parse_flags", "cid_decode", "new_path", "rpc_pin_add", "stat", "new_serial_file",
      "rpc_unixfs_add", "root_cid", "create_file", "exec_ipfs_cat", "remove_file",
      "read_stdin", "read_stdin_failed", "cid_decode_output", "child_stdout", "cat_stdout",
      "request_error",
      "exec_ipfs_add", "exec_ipfs_key_gen", "exec_ipfs_key_list",
      "exec_ipfs_name_publish", "exec_ipfs_name_resolve", "exec_ipfs_pin_ls",
      "exec_ipfs_routing_findprovs" }
NoHandlerLogic ==
    /\ \A i \in DOMAIN log : log[i][1] \notin HandlerEvents
    /\ ~SuccessEmitted

\* version strings, read independently of the program: three dot-separated
\* integers (optional sign, decimal digits), white space around ignored
DigitSeq == <<"0", "1", "2", "3", "4", "5", "6", "7", "8", "9">>
IsIntegerText(x) ==
    LET b == IF x # <<>> /\ x[1] \in {"+", "-"} THEN SubSeq(x, 2, Len(x)) ELSE x
    IN  b # <<>> /\ \A i \in 1..Len(b) : \E d \in 1..10 : DigitSeq[d] = b[i]

RECURSIVE NaturalValue(_)
NaturalValue(b) ==
    IF b = <<>> THEN 0
    ELSE 10 * NaturalValue(SubSeq(b, 1, Len(b) - 1))
         + ((CHOOSE d \in 1..10 : DigitSeq[d] = b[Len(b)]) - 1)

IntegerValue(x) ==
    IF x[1] = "-" THEN 0 - NaturalValue(SubSeq(x, 2, Len(x)))
    ELSE IF x[1] = "+" THEN NaturalValue(SubSeq(x, 2, Len(x)))
    ELSE NaturalValue(x)

DotsOf(t) == {i \in 1..Len(t) : t[i] = "."}
Least(S) == CHOOSE i \in S : \A j \in S : i <= j
Greatest(S) == CHOOSE i \in S : \A j \in S : i >= j
SegmentsOf(t) ==
    <<SubSeq(t, 1, Least(DotsOf(t)) - 1),
      SubSeq(t, Least(DotsOf(t)) + 1, Greatest(DotsOf(t)) - 1),
      SubSeq(t, Greatest(DotsOf(t)) + 1, Len(t))>>

WellFormedVersion(s) ==
    LET t == TrimSpace(s)
    IN  /\ Cardinality(DotsOf(t)) = 2
        /\ \A k \in 1..3 : IsIntegerText(SegmentsOf(t)[k])

TripleOf(s) == [k \in 1..3 |-> IntegerValue(SegmentsOf(TrimSpace(s))[k])]

\* lexicographic order on triples: major first, then minor, then patch
LexLess(x, y) ==
    \E k \in 1..3 : x[k] < y[k] /\ \A j \in 1..(k - 1) : x[j] = y[j]

RequiredTriple == <<0, 34, 1>>

\* the installed version is acceptable: the output, trimmed and without one
\* leading "v", is a version of at least 0.34.1
GateCriterion(out) ==
    LET n == TrimPrefix(TrimSpace(out), <<"v">>)
    IN  WellFormedVersion(n) /\ ~LexLess(TripleOf(n), RequiredTriple)

GatePassed == versionRun.ok /\ GateCriterion(versionRun.out)

(***************************************************************************)
(* C1: every envelope on standard output is a success envelope and every   *)
(* envelope on standard error is a failure envelope with a non-empty error *)
(* and no data; a process that has emitted a success envelope exits with   *)
(* 0, one that has emitted a failure envelope exits with 1.                *)
(***************************************************************************)
C1_EnvelopePairing ==
    /\ \A i \in JsonIdx(stdout) : stdout[i].body.success
    /\ \A i \in JsonIdx(stderr) :
         /\ ~stderr[i].body.success
         /\ "error" \in DOMAIN stderr[i].body
         /\ stderr[i].body.error # ""
         /\ "data" \notin DOMAIN stderr[i].body
    /\ FailureEmitted => pc = "exited" /\ exitCode = 1
    /\ SuccessEmitted => pc = "exited" /\ exitCode = 0

C1_Witness ==
    /\ pc = "exited"
    /\ exitCode = 1
    /\ subcommand = "get_json_cid"
    /\ Done("exec_ipfs_cat")
    /\ FailureOn(stderr) # {}

(***************************************************************************)
(* C2: every invocation that ends without a success envelope ends with     *)
(* exit code 1 and a JSON failure envelope on standard error, also when a  *)
(* global or subcommand option fails to parse.                             *)
(***************************************************************************)
C2_EveryFailureIsAnEnvelope ==
    (pc = "exited" /\ ~SuccessEmitted) =>
        (exitCode = 1 /\ FailureOn(stderr) # {})

(***************************************************************************)
(* C3: a subcommand other than version gets past the version gate only if  *)
(* the version query succeeded and printed an acceptable version; a gate   *)
(* that does not pass ends the run with one failure envelope and exit 1    *)
(* before any connection attempt, probe or handler action; only version    *)
(* skips the gate.                                                         *)
(***************************************************************************)
C3_VersionGate ==
    /\ ((pc \in {"connect", "dispatch"} \/ \E e \in ConnectionEvents \cup HandlerEvents : Done(e))
          /\ subcommand # "version")
       => (Done("exec_ipfs_version") /\ GatePassed)
    /\ (Done("exec_ipfs_version") /\ ~GatePassed)
       => /\ EndedInFailure(VersionErrors)
          /\ \A e \in ConnectionEvents : ~Done(e)
          /\ NoHandlerLogic
    /\ subcommand = "version" => ~Done("exec_ipfs_version")

C3_Witness ==
    /\ pc = "exited"
    /\ subcommand = "pin"
    /\ Done("exec_ipfs_version")
    /\ versionRun = [ok |-> TRUE, out |-> <<"0", ".", "3", "3", ".", "9", "\n">>]
    /\ exitCode = 1

(***************************************************************************)
(* C4: for well-formed version strings compareVersions answers true        *)
(* exactly when the first triple is lexicographically smaller, so it is    *)
(* irreflexive and transitive and orders any two distinct triples one way  *)
(* only; a string that is not three dot-separated integers gives an error  *)
(* and no verdict.                                                         *)
(***************************************************************************)
C4_CompareVersionsOrder ==
    cmp.phase = "done" =>
      LET wa == WellFormedVersion(cmp.a)
          wb == WellFormedVersion(cmp.b)
          wc == WellFormedVersion(cmp.c)
      IN  /\ (wa /\ wb) =>
                /\ ~cmp.ab.err
                /\ cmp.ab.less = LexLess(TripleOf(cmp.a), TripleOf(cmp.b))
                /\ TripleOf(cmp.a) # TripleOf(cmp.b) => cmp.ab.less # cmp.ba.less
          /\ wa => ~cmp.aa.err /\ ~cmp.aa.less
          /\ (wa /\ wb /\ wc /\ cmp.ab.less /\ cmp.bc.less) => cmp.ac.less
          /\ (~wa \/ ~wb) => cmp.ab.err /\ ~cmp.ab.less
          /\ (cmp.a = <<"0", ".", "3", "3", ".", "0">> /\ cmp.b = <<"0", ".", "3", "4", ".", "1">>)
                => cmp.ab.less /\ ~cmp.ba.less
          /\ (cmp.a = <<"1", ".", "0", ".", "0">> /\ cmp.b = <<"0", ".", "9", ".", "9">>)
                => ~cmp.ab.less /\ cmp.ba.less

C4_Witness ==
    /\ cmp.phase = "done"
    /\ cmp.a = <<"0", ".", "9", ".", "9">>
    /\ cmp.b = <<"0", ".", "3", "4", ".", "0">>
    /\ cmp.c = <<"0", ".", "3", "4", ".", "1">>
    /\ cmp.ab.less /\ cmp.bc.less /\ cmp.ac.less

(***************************************************************************)
(* C5: when the address does not parse, the handle cannot be constructed   *)
(* or the identity query fails, the run ends with one connectivity failure *)
(* envelope and exit 1, and nothing of the subcommand has run; nothing of  *)
(* a subcommand ever runs before the daemon has answered the probe.        *)
(***************************************************************************)
ConnectionFailed ==
    /\ Done("new_multiaddr")
    /\ \/ ~MultiaddrOK(apiAddrStr)
       \/ ~DialableOK(apiAddrStr)
       \/ idOutput = NoId

C5_ConnectivityGate ==
    /\ ConnectionFailed => EndedInFailure(ConnectivityErrors) /\ NoHandlerLogic
    /\ ~NoHandlerLogic => Done("rpc_id") /\ idOutput = IdOf(DaemonAt(apiAddrStr))
    /\ (Done("new_multiaddr") /\ ~MultiaddrOK(apiAddrStr))
          => ~Done("new_api") /\ AllErrors = {"Invalid API multiaddress"}
    /\ (Done("new_api") /\ ~DialableOK(apiAddrStr))
          => ~Done("rpc_id") /\ AllErrors = {"Failed to connect to IPFS node"}

C5_Witness ==
    /\ pc = "exited"
    /\ subcommand = "add_json"
    /\ Done("rpc_id")
    /\ idOutput = NoId
    /\ exitCode = 1

(***************************************************************************)
(* C6: an invocation of version exits with 0 and the success envelope      *)
(* {version: "0.1.0"}, whatever the daemon and the address are.            *)
(***************************************************************************)
C6_VersionNeedsNoDaemon ==
    (pc = "exited" /\ subcommand = "version") =>
        /\ exitCode = 0
        /\ stdout = <<Json([success |-> TRUE, data |-> Map([version |-> "0.1.0"])])>>

(***************************************************************************)
(* C7: once the global options are parsed, an invocation without a         *)
(* subcommand or with a name that is none of the thirteen ends with one    *)
(* failure envelope and exit 1, never with success, and no step of it      *)
(* changes a daemon.                                                       *)
(***************************************************************************)
NotDispatchable ==
    LET r == FlagParse(GlobalFlagDefs, GlobalFlagDefaults, args)
    IN  /\ pc \notin {"idle", "main"}
        /\ r.err = ""
        /\ (r.rest = <<>> \/ ArgText(r.rest[1]) \notin KnownSubcommands)

C7_DispatchState ==
    NotDispatchable =>
        /\ ~SuccessEmitted
        /\ pc = "exited" =>
             EndedInFailure(DispatchErrors \cup VersionErrors \cup ConnectivityErrors)
        /\ (pc = "exited" /\ Done("rpc_id") /\ idOutput # NoId) => EndedInFailure(DispatchErrors)
        /\ \A i \in DOMAIN log : log[i][1] \notin HandlerEvents

C8_NoPartialFile ==
    (pc = "exited" /\ subcommand = "get_cid_to_file" /\ Done("exec_ipfs_cat")
       /\ FailureEmitted)
    => \A f \in Paths : DoneWith("create_file", <<f>>) => fs[f] \notin {"empty", "partial"}

(***************************************************************************)
(* C9: pin, get_cid_to_file and get_json_cid answer a CID that does not    *)
(* decode with one validation failure envelope and exit 1, before the CID  *)
(* is used: no path is built, no pin request is sent, no child is started, *)
(* no file is created, and the handler changes no daemon and no file.      *)
(***************************************************************************)
\* the CID string the subcommand was given, "" if none or if its options
\* do not parse
GivenCid(name, a) ==
    LET r == ParseSubcommandFlags(name, a)
    IN  IF r.err # "" THEN ""
        ELSE IF name = "pin" THEN (IF Len(r.rest) >= 1 THEN ArgText(r.rest[1]) ELSE "")
        ELSE IF "cid" \in DOMAIN r.vals THEN r.vals["cid"]
        ELSE ""

BadCidGiven(names) ==
    /\ subcommand \in names
    /\ GivenCid(subcommand, subcommandArgs) # ""
    /\ ~cidDecode(GivenCid(subcommand, subcommandArgs)).ok

CidUses == {"new_path", "rpc_pin_add", "create_file", "exec_ipfs_cat",
            "exec_ipfs_routing_findprovs"}

ValidationErrors ==
    { "Invalid CID format", "Argument --output <output_path> is required" }

RejectingHandlers == {"pin", "get_cid_to_file", "get_json_cid"}

C9_BadCidState ==
    BadCidGiven(RejectingHandlers) =>
        /\ \A e \in CidUses : ~Done(e)
        /\ ~SuccessEmitted
        /\ (pc = "exited" /\ Done("parse_flags")) => EndedInFailure(ValidationErrors)
        /\ (pc = "exited" /\ Done("cid_decode")) => EndedInFailure({"Invalid CID format"})

C9_BadCidStep ==
    (pc = "dispatch" /\ BadCidGiven(RejectingHandlers))
    => (daemon' = daemon /\ fs' = fs /\ pc' = "exited" /\ exitCode' = 1)

C9_InvalidCidRejected == []C9_BadCidState /\ [][C9_BadCidStep]_vars

C9_Witness ==
    /\ pc = "exited"
    /\ subcommand = "get_cid_to_file"
    /\ DoneWith("cid_decode", <<InvalidCid>>)
    /\ GivenCid(subcommand, subcommandArgs) = InvalidCid
    /\ fs[OutPath] = "old"
    /\ exitCode = 1

(***************************************************************************)
(* C10: dht_find_providers answers a non-empty --cid value that does not   *)
(* decode with exit 0 and a success envelope holding an empty provider     *)
(* list, without starting the provider-discovery child; no other handler   *)
(* answers a CID that does not decode with success.                        *)
(***************************************************************************)
C10_FindProvsBadCid ==
    /\ (BadCidGiven({"dht_find_providers"}) /\ pc = "exited" /\ Done("parse_flags"))
       => /\ exitCode = 0
          /\ stdout = <<Json([success |-> TRUE, data |-> Map([providers |-> <<>>])])>>
          /\ JsonIdx(stderr) = {}
          /\ ~Done("exec_ipfs_routing_findprovs")
    /\ BadCidGiven({"dht_find_providers"}) => ~Done("exec_ipfs_routing_findprovs")
    /\ (SuccessEmitted /\ \E i \in DOMAIN log :
            log[i][1] = "cid_decode" /\ ~cidDecode(log[i][2][1]).ok)
       => subcommand = "dht_find_providers"

C10_Witness ==
    /\ pc = "exited"
    /\ subcommand = "dht_find_providers"
    /\ GivenCid(subcommand, subcommandArgs) = InvalidCid
    /\ DoneWith("cid_decode", <<InvalidCid>>)
    /\ exitCode = 0

(***************************************************************************)
(* C11: a pin invocation with a valid CID that has passed the gates and    *)
(* whose pin request the daemon has answered ends with exit 0 and the      *)
(* success envelope {cid, path: "/ipfs/" + cid, status: "pinned"}; when    *)
(* the previous invocation pinned the same CID on the same daemon, the     *)
(* daemon's pin set after this invocation is its pin set after that one.   *)
(***************************************************************************)
PinRequestAnswered ==
    /\ pc = "exited"
    /\ subcommand = "pin"
    /\ Done("parse_flags")
    /\ cidDecode(GivenCid("pin", subcommandArgs)).ok
    /\ "Failed to pin IPFS path" \notin AllErrors

RepeatedPin ==
    /\ PinRequestAnswered
    /\ lastPin.cid = GivenCid("pin", subcommandArgs)
    /\ DaemonAt(lastPin.api) = DaemonAt(apiAddrStr)

FileOptionParsed ==
    subcommand = "add_file" /\ ParseSubcommandFlags("add_file", subcommandArgs).err = ""

GivenFile == ParseSubcommandFlags("add_file", subcommandArgs).vals["file"]

BadFileGiven ==
    /\ FileOptionParsed
    /\ \/ GivenFile = ""
       \/ GivenFile \notin Paths
       \/ fs[GivenFile] \in {"absent", "dir"}

C12_BadFileState ==
    BadFileGiven =>
        /\ ~Done("new_serial_file")
        /\ ~Done("rpc_unixfs_add")
        /\ ~SuccessEmitted
        /\ (pc = "exited" /\ Done("parse_flags")) =>
             /\ GivenFile = "" =>
                  /\ EndedInFailure({"Argument --file <path> is required for add_file command"})
                  /\ ~Done("stat")
             /\ (GivenFile # "" /\ (GivenFile \notin Paths \/ fs[GivenFile] = "absent")) =>
                  EndedInFailure({"File not found"})
             /\ (GivenFile \in Paths /\ fs[GivenFile] = "dir") =>
                  EndedInFailure({"Path is a directory, please provide a file to add."})

C12_BadFileStep ==
    (pc = "dispatch" /\ BadFileGiven)
    => (daemon' = daemon /\ fs' = fs /\ pc' = "exited" /\ exitCode' = 1)

C12_AddFileRejectsBadPaths == []C12_BadFileState /\ [][C12_BadFileStep]_vars

C12_Witness ==
    /\ pc = "exited"
    /\ BadFileGiven
    /\ GivenFile = DirPath
    /\ DoneWith("stat", <<DirPath>>)
    /\ exitCode = 1

(***************************************************************************)
(* C13: add_json starts the ingestion child only after it has read a       *)
(* non-empty, well-formed JSON text from standard input, and hands the     *)
(* child exactly the bytes it read; on empty input and on input that is    *)
(* not JSON the run ends in a failure envelope with exit 1, the child is   *)
(* never started and no daemon changes.                                    *)
(***************************************************************************)
\* what the invocation read from standard input
StdinRead == { log[i][2][1] : i \in {j \in DOMAIN log : log[j][1] = "read_stdin"} }

IngestArgs(bytes) == <<"-Q", "--cid-version", "1", "--pin=false", bytes>>

C13_State ==
    subcommand = "add_json" =>
        /\ \A i \in DOMAIN log : log[i][1] = "exec_ipfs_add" =>
             \E b \in StdinRead :
                /\ b # ""
                /\ b \in JsonTexts
                /\ log[i][2] = IngestArgs(b)
        /\ \A b \in StdinRead : (pc = "exited" /\ b = "") =>
             /\ EndedInFailure({"No JSON data received from stdin"})
             /\ ~Done("exec_ipfs_add")
        /\ \A b \in StdinRead : (pc = "exited" /\ b # "" /\ b \notin JsonTexts) =>
             /\ EndedInFailure({"Invalid JSON data received from stdin"})
             /\ ~Done("exec_ipfs_add")

\* a step of the handler that does not start the child leaves the daemons alone
C13_Step ==
    (pc = "dispatch" /\ subcommand = "add_json"
       /\ \A i \in DOMAIN log' : log'[i][1] # "exec_ipfs_add")
    => daemon' = daemon

C13_AddJsonValidatesFirst == []C13_State /\ [][C13_Step]_vars

C13_Witness ==
    /\ pc = "exited"
    /\ subcommand = "add_json"
    /\ StdinRead = {"not json"}
    /\ exitCode = 1
    /\ ~Done("exec_ipfs_add")

(***************************************************************************)
(* C14: when add_json or add_file ends in a success envelope, its payload  *)
(* is {cid} with a well-formed CID: for add_json the trimmed output of the *)
(* ingestion child, for add_file the root CID of the result.  When the     *)
(* ingestion succeeded but the child's output is not a CID, or the root    *)
(* CID is undefined, the run ends in a failure envelope with exit 1.       *)
(***************************************************************************)
\* what the ingestion returned: the trimmed output of "ipfs add -Q", the
\* root CID of Unixfs().Add ("" when undefined)
IngestOutputs == { log[i][2] : i \in {j \in DOMAIN log : log[j][1] = "cid_decode_output"} }
RootCids == { log[i][2][1] : i \in {j \in DOMAIN log : log[j][1] = "root_cid"} }

\* a text that is one well-formed CID
WellFormedCidText(pieces) == Len(pieces) = 1 /\ pieces[1] \in ValidCidStrings

C14_IngestionPostcondition ==
    /\ (subcommand = "add_json" /\ SuccessEmitted) =>
          /\ \E o \in IngestOutputs :
               /\ WellFormedCidText(o)
               /\ stdout = <<Json([success |-> TRUE, data |-> Map([cid |-> o[1]])])>>
          /\ exitCode = 0
    /\ (subcommand = "add_file" /\ SuccessEmitted) =>
          /\ \E c \in RootCids :
               /\ c \in ValidCidStrings
               /\ stdout = <<Json([success |-> TRUE, data |-> Map([cid |-> c])])>>
          /\ exitCode = 0
    /\ (subcommand = "add_json" /\ pc = "exited"
          /\ \E o \in IngestOutputs : ~WellFormedCidText(o))
       => EndedInFailure({"'ipfs add -Q' returned an invalid CID"})
    /\ (subcommand = "add_file" /\ pc = "exited" /\ "" \in RootCids)
       => EndedInFailure({"Failed to get a defined CID for file"})

C14_Witness ==
    /\ pc = "exited"
    /\ subcommand = "add_json"
    /\ Done("exec_ipfs_add")
    /\ IngestOutputs = {<<"added", " ", JsonCid>>}
    /\ exitCode = 1

(***************************************************************************)
(* C15: a step of a subcommand handler changes at most its own part of the *)
(* daemons' state: add_file and add_json the content only (never the pin   *)
(* set), pin the pin set only, gen_ipns_key the key store only,            *)
(* publish_ipns the naming records only, every other subcommand nothing;   *)
(* the steps before the handler change nothing either.                     *)
(***************************************************************************)
\* the parts of the daemons' state that a step leaves as they are
PartKept(part) == \A d \in Daemons : daemon'[d][part] = daemon[d][part]

OwnPart(name) ==
    CASE name \in {"add_file", "add_json"} -> "blocks"
      [] name = "pin"                        -> "pins"
      [] name = "gen_ipns_key"               -> "keys"
      [] name = "publish_ipns"               -> "names"
      [] OTHER                               -> "none"

DaemonParts == {"pins", "blocks", "keys", "names"}

C15_FrameStep ==
    /\ pc = "dispatch" => \A part \in DaemonParts \ {OwnPart(subcommand)} : PartKept(part)
    /\ pc # "dispatch" => daemon' = daemon

C15_Frame == [][C15_FrameStep]_vars

C15_Witness ==
    /\ pc = "exited"
    /\ subcommand = "add_file"
    /\ exitCode = 0
    /\ lastPin.cid = TestCid
    /\ "paper" \in daemon[DaemonAt(apiAddrStr)].blocks
    /\ daemon[DaemonAt(apiAddrStr)].pins = {"emptydir"}

(***************************************************************************)
(* C16: list_pinned_cids, once its options have parsed, starts the listing *)
(* child only for a --pin-type among recursive, direct, indirect and all   *)
(* (the default is recursive); any other value ends the run in the failure *)
(* envelope that lists the four values, with exit 1 and no child started.  *)
(***************************************************************************)
AcceptedPinTypes == {"recursive", "direct", "indirect", "all"}

PinTypeParsed ==
    /\ subcommand = "list_pinned_cids"
    /\ ParseSubcommandFlags("list_pinned_cids", subcommandArgs).err = ""

GivenPinType == ParseSubcommandFlags("list_pinned_cids", subcommandArgs).vals["pin-type"]

C16_PinTypeValidated ==
    /\ (PinTypeParsed /\ GivenPinType \notin AcceptedPinTypes) =>
          /\ ~Done("exec_ipfs_pin_ls")
          /\ ~SuccessEmitted
          /\ (pc = "exited" /\ Done("parse_flags")) =>
               EndedInFailure({"Invalid --pin-type value. Must be one of recursive, direct, indirect, all."})
    /\ (subcommand = "list_pinned_cids" /\ Done("exec_ipfs_pin_ls")) =>
          /\ PinTypeParsed
          /\ GivenPinType \in AcceptedPinTypes
          /\ DoneWith("exec_ipfs_pin_ls", <<"--type=", GivenPinType>>)

C16_Witness ==
    /\ pc = "exited"
    /\ PinTypeParsed
    /\ GivenPinType = "bogus"
    /\ Done("parse_flags")
    /\ exitCode = 1

(***************************************************************************)
(* C17: when the listing child of list_pinned_cids exits zero the run ends *)
(* with exit 0 and one success envelope whose mapping has exactly the      *)
(* entries cid -> second field of the lines that have at least two fields  *)
(* and a first field that is a CID (the last such line of a cid counts);   *)
(* every line with one field, or with two or more and a first field that   *)
(* is no CID, gives one warning on standard error and no entry.            *)
(***************************************************************************)
\* what the child printed, as the handler received it
ChildStdout == { log[i][2] : i \in {j \in DOMAIN log : log[j][1] = "child_stdout"} }

\* the words of each line of a text
WordsOfLines(out) ==
    LET lines == Split(out, "\n")
    IN  [k \in DOMAIN lines |-> SelectSeq(lines[k], LAMBDA x : x \notin WhiteSpace)]

PinEntryLines(out) ==
    {k \in DOMAIN WordsOfLines(out) :
        Len(WordsOfLines(out)[k]) >= 2 /\ WordsOfLines(out)[k][1] \in ValidCidStrings}

PinSkippedLines(out) ==
    {k \in DOMAIN WordsOfLines(out) :
        \/ Len(WordsOfLines(out)[k]) = 1
        \/ Len(WordsOfLines(out)[k]) >= 2 /\ WordsOfLines(out)[k][1] \notin ValidCidStrings}

PinEntries(out) ==
    { <<WordsOfLines(out)[k][1], WordsOfLines(out)[k][2]>> :
        k \in {i \in PinEntryLines(out) :
                 \A j \in PinEntryLines(out) :
                    WordsOfLines(out)[j][1] = WordsOfLines(out)[i][1] => j <= i} }

C17_PinListingBestEffort ==
    (subcommand = "list_pinned_cids" /\ pc = "exited") =>
        \A out \in ChildStdout :
            /\ exitCode = 0
            /\ stdout = <<Json([success |-> TRUE,
                                data |-> [t |-> "mapping", v |-> PinEntries(out)]])>>
            /\ \A i \in DOMAIN stderr : stderr[i].kind = "text"
            /\ Len(stderr) = Cardinality(PinSkippedLines(out))

C17_Witness ==
    /\ subcommand = "list_pinned_cids"
    /\ pc = "exited"
    /\ exitCode = 0
    /\ Len(stderr) = 2
    /\ stdout = <<Json([success |-> TRUE,
                        data |-> [t |-> "mapping",
                                  v |-> {<<TestCid, "direct">>, <<JsonCid, "indirect">>}]])>>

(***************************************************************************)
(* C18: when the listing child of list_ipns_keys_cmd exits zero the run    *)
(* ends with exit 0 and one success envelope whose list holds, in listing  *)
(* order, (Id, Name) = the first two fields of every line with at least    *)
(* two fields; every non-empty line with fewer than two fields gives one   *)
(* warning on standard error and no entry.                                 *)
(***************************************************************************)
KeyEntries(out) ==
    LET withTwo == SelectSeq(WordsOfLines(out), LAMBDA w : Len(w) >= 2)
    IN  [k \in DOMAIN withTwo |-> [Id |-> withTwo[k][1], Name |-> withTwo[k][2]]]

KeySkippedLines(out) ==
    {k \in DOMAIN WordsOfLines(out) :
        Split(out, "\n")[k] # <<>> /\ Len(WordsOfLines(out)[k]) < 2}

C18_KeyListingWarns ==
    (subcommand = "list_ipns_keys_cmd" /\ pc = "exited") =>
        \A out \in ChildStdout :
            /\ exitCode = 0
            /\ stdout = <<Json([success |-> TRUE,
                                data |-> [t |-> "list", v |-> KeyEntries(out)]])>>
            /\ \A i \in DOMAIN stderr : stderr[i].kind = "text"
            /\ Len(stderr) = Cardinality(KeySkippedLines(out))

\* the part of C18 that the handler does keep: the entries and the success
C18_KeyListingEntries ==
    (subcommand = "list_ipns_keys_cmd" /\ pc = "exited") =>
        \A out \in ChildStdout :
            /\ exitCode = 0
            /\ stdout = <<Json([success |-> TRUE,
                                data |-> [t |-> "list", v |-> KeyEntries(out)]])>>

(***************************************************************************)
(* C19: publish_ipns, once its options have parsed, ends in success        *)
(* exactly when --key-name is given, --path starts with /ipfs/ or /ipns/,  *)
(* the publish child exits zero and its trimmed output is one line of the  *)
(* form "Published to <name>: <value>"; the payload is then {Name: <name>, *)
(* Value: <value>} of that line.  A path without either prefix fails       *)
(* before the child is started, and an output of another form fails        *)
(* although the child exited zero.                                         *)
(***************************************************************************)
PublishParsed ==
    /\ subcommand = "publish_ipns"
    /\ ParseSubcommandFlags("publish_ipns", subcommandArgs).err = ""
    /\ Done("parse_flags")

PublishVals == ParseSubcommandFlags("publish_ipns", subcommandArgs).vals

\* where a text of the form "Published to <name>: <value>" has its colon:
\* the name is not empty and holds no colon
PublishColons(t) ==
    {c \in 6..(Len(t) - 1) :
        /\ SubSeq(t, 1, 4) = <<"Published", " ", "to", " ">>
        /\ t[c] = ":"
        /\ t[c + 1] = " "
        /\ \A k \in 5..(c - 1) : t[k] # ":"}

OneLine(t) == \A k \in DOMAIN t : t[k] # "\n"

PublishedForm(t) == OneLine(t) /\ PublishColons(t) # {}

PublishedPayload(t) ==
    LET c == CHOOSE x \in PublishColons(t) : TRUE
    IN  Map([Name |-> SubSeq(t, 5, c - 1), Value |-> SubSeq(t, c + 2, Len(t))])

C19_PublishSucceedsExactlyWhen ==
    (PublishParsed /\ pc = "exited") =>
        /\ (exitCode = 0 /\ SuccessEmitted) <=>
              /\ PublishVals["key-name"] # ""
              /\ HasNamespacePrefix(PublishVals["path"])
              /\ \E out \in ChildStdout : PublishedForm(TrimSpace(out))
        /\ SuccessEmitted =>
              \A out \in ChildStdout :
                 stdout = <<Json([success |-> TRUE,
                                  data |-> PublishedPayload(TrimSpace(out))])>>
        /\ ~HasNamespacePrefix(PublishVals["path"]) =>
              /\ ~Done("exec_ipfs_name_publish")
              /\ exitCode = 1
        /\ (\E out \in ChildStdout : ~PublishedForm(TrimSpace(out))) =>
              EndedInFailure({"'ipfs name publish' produced unexpected output"})

\* the text the pattern of the handler takes: as PublishedForm, but only
\* the value has to be free of line breaks
PatternForm(t) ==
    \E c \in PublishColons(t) : \A k \in (c + 2)..Len(t) : t[k] # "\n"

\* what the handler keeps of C19: the same statement with PatternForm
C19_PublishMatchesPattern ==
    (PublishParsed /\ pc = "exited") =>
        /\ (exitCode = 0 /\ SuccessEmitted) <=>
              /\ PublishVals["key-name"] # ""
              /\ HasNamespacePrefix(PublishVals["path"])
              /\ \E out \in ChildStdout : PatternForm(TrimSpace(out))
        /\ SuccessEmitted =>
              \A out \in ChildStdout :
                 stdout = <<Json([success |-> TRUE,
                                  data |-> PublishedPayload(TrimSpace(out))])>>
        /\ ~HasNamespacePrefix(PublishVals["path"]) =>
              /\ ~Done("exec_ipfs_name_publish")
              /\ exitCode = 1
        /\ (\E out \in ChildStdout : ~PatternForm(TrimSpace(out))) =>
              EndedInFailure({"'ipfs name publish' produced unexpected output"})

(***************************************************************************)
(* C20: resolve_ipns reports success only with a payload {Path} whose      *)
(* Path starts with /ipfs/ or /ipns/.  When the resolve child exits zero   *)
(* and its trimmed output starts with neither prefix (the empty output     *)
(* included), the run ends with one failure envelope and exit 1.           *)
(***************************************************************************)
StartsWithNamespace(t) == Len(t) >= 1 /\ Head(t) \in {"/ipfs/", "/ipns/"}

C20_ResolveChecksPrefix ==
    (subcommand = "resolve_ipns" /\ pc = "exited") =>
        /\ SuccessEmitted =>
              /\ exitCode = 0
              /\ \E out \in ChildStdout :
                    /\ StartsWithNamespace(TrimSpace(out))
                    /\ stdout = <<Json([success |-> TRUE,
                                        data |-> Map([Path |-> TrimSpace(out)])])>>
        /\ \A out \in ChildStdout :
              ~StartsWithNamespace(TrimSpace(out)) =>
                 EndedInFailure({"'ipfs name resolve' returned an unexpected path format"})

\* the child exited zero with an output that is empty once trimmed, and the
\* run has failed
C20_Witness ==
    /\ subcommand = "resolve_ipns"
    /\ pc = "exited"
    /\ ChildStdout = {<<"\n">>}
    /\ exitCode = 1
    /\ FailureEmitted

\* the child exited zero with a path whose namespace lacks the leading
\* slash, and the run has failed
C20_WitnessNoSlash ==
    /\ subcommand = "resolve_ipns"
    /\ pc = "exited"
    /\ ChildStdout = {<<"ipfs/", TestCid, "\n">>}
    /\ exitCode = 1

(***************************************************************************)
(* C21: resolve_ipns starts the resolve command with flags that match the  *)
(* caller's options, for the four combinations of --nocache and            *)
(* --recursive: the command asks for a fresh lookup exactly when nocache   *)
(* is true (a cached one otherwise) and for recursive resolution exactly   *)
(* when recursive is true (single-hop resolution otherwise).               *)
(***************************************************************************)
ResolveVals == ParseSubcommandFlags("resolve_ipns", subcommandArgs).vals

\* the argument lists with which the resolve child was started
ResolveCommands ==
    { log[i][2] : i \in {j \in DOMAIN log : log[j][1] = "exec_ipfs_name_resolve"} }

C21_ResolveFlagsMatch ==
    (subcommand = "resolve_ipns" /\ pc = "exited") =>
        \A cmdArgs \in ResolveCommands :
            /\ ipfsNameResolveMode(cmdArgs).nocache = ResolveVals["nocache"]
            /\ ipfsNameResolveMode(cmdArgs).recursive = ResolveVals["recursive"]

\* what the handler keeps of C21: the lookup is fresh exactly when nocache
\* is true, and a resolution asked to be recursive is recursive
C21_ResolveNocacheMatches ==
    (subcommand = "resolve_ipns" /\ pc = "exited") =>
        \A cmdArgs \in ResolveCommands :
            /\ cmdArgs[3] = ResolveVals["ipns-name"]
            /\ ipfsNameResolveMode(cmdArgs).nocache = ResolveVals["nocache"]
            /\ ResolveVals["recursive"] => ipfsNameResolveMode(cmdArgs).recursive

(***************************************************************************)
(* C22: gen_ipns_key, once its options have parsed, fails before the       *)
(* key-generation command is started when --key-name is empty.  When the   *)
(* command exits zero and its output holds at least one token, the run     *)
(* succeeds with {Name, Id}: Name is the name the caller asked for,        *)
(* whatever name the tool printed, and Id is the first token of the        *)
(* output.  An output without a token is a failure.                        *)
(***************************************************************************)
GenKeyParsed ==
    /\ subcommand = "gen_ipns_key"
    /\ ParseSubcommandFlags("gen_ipns_key", subcommandArgs).err = ""
    /\ Done("parse_flags")

GenKeyVals == ParseSubcommandFlags("gen_ipns_key", subcommandArgs).vals

\* where the tokens of a text stand
TokenPositions(out) == {i \in DOMAIN out : out[i] \notin WhiteSpace}

C22_GenKeyEchoesRequestedName ==
    (GenKeyParsed /\ pc = "exited") =>
        /\ GenKeyVals["key-name"] = "" =>
              /\ ~Done("exec_ipfs_key_gen")
              /\ EndedInFailure({"Argument --key-name is required"})
        /\ \A out \in ChildStdout :
              IF TokenPositions(out) # {}
              THEN /\ exitCode = 0
                   /\ stdout = <<Json([success |-> TRUE,
                                       data |-> Map([Name |-> GenKeyVals["key-name"],
                                                     Id |-> out[Least(TokenPositions(out))]])])>>
              ELSE EndedInFailure({"'ipfs key gen' produced unexpected output"})

\* the tool printed another name than the one asked for, and the run has
\* succeeded
C22_Witness ==
    /\ GenKeyParsed
    /\ pc = "exited"
    /\ ChildStdout = {<<"k51id", " ", "my_key", "\n">>}
    /\ GenKeyVals["key-name"] = "mykey"
    /\ exitCode = 0
    /\ SuccessEmitted

(***************************************************************************)
(* C23: get_json_cid returns the decoded document verbatim.  For a valid   *)
(* CID whose retrieved bytes are a JSON document of any kind (object,      *)
(* array, string, number, boolean, null) the run ends with one success     *)
(* envelope that has a data field, equal to the decoded document; when     *)
(* the bytes are no JSON document the run ends with a parse-failure        *)
(* envelope and exit 1.                                                    *)
(***************************************************************************)
\* the bytes "ipfs cat" gave to get_json_cid
CatStdout == { log[i][2][1] : i \in {j \in DOMAIN log : log[j][1] = "cat_stdout"} }

\* the JSON documents among the texts of the model, by kind
JsonDocumentKinds ==
    [object |-> {"{\"a\":1}"}, array |-> {"[1,2]", "[]"}, string |-> {"\"text\""},
     number |-> {"42"}, boolean |-> {"true", "false"}, null |-> {"null"}]

IsJsonDocument(bytes) == \E k \in DOMAIN JsonDocumentKinds : bytes \in JsonDocumentKinds[k]

\* the document a JSON text stands for
DocumentOf(bytes) == [t |-> "json", v |-> bytes]

C23_JsonReturnedVerbatim ==
    (subcommand = "get_json_cid" /\ pc = "exited") =>
        \A bytes \in CatStdout :
            IF IsJsonDocument(bytes)
            THEN /\ exitCode = 0
                 /\ stderr = <<>>
                 /\ Len(stdout) = 1
                 /\ stdout[1].kind = "json"
                 /\ stdout[1].body.success
                 /\ "data" \in DOMAIN stdout[1].body
                 /\ stdout[1].body.data = DocumentOf(bytes)
            ELSE EndedInFailure({"Failed to unmarshal JSON from CID"})

\* what the handler keeps of C23: the same for every document but null, for
\* which the success envelope has no data field
C23_JsonReturnedUnlessNull ==
    (subcommand = "get_json_cid" /\ pc = "exited") =>
        \A bytes \in CatStdout :
            IF IsJsonDocument(bytes)
            THEN /\ exitCode = 0
                 /\ stderr = <<>>
                 /\ Len(stdout) = 1
                 /\ stdout[1].kind = "json"
                 /\ stdout[1].body.success
                 /\ IF bytes \in JsonDocumentKinds.null
                    THEN "data" \notin DOMAIN stdout[1].body
                    ELSE /\ "data" \in DOMAIN stdout[1].body
                         /\ stdout[1].body.data = DocumentOf(bytes)
            ELSE EndedInFailure({"Failed to unmarshal JSON from CID"})

(***************************************************************************)
(* C24: provider discovery as the integration test exercises it.  After    *)
(* the test's CID has been pinned on the local daemon, the invocation      *)
(* -api <local address> find_providers_cid --cid <that CID>                *)
(* --num-providers 5 exits with 0 and one success envelope on standard     *)
(* output whose data holds a non-empty providers array.                    *)
(***************************************************************************)
\* the invocation of the test's step 6, made after the pin of its
\* prerequisite has succeeded, with the version gate and the liveness probe
\* passed
Test6Invocation ==
    /\ args = <<F("api"), P(DefaultAPI), P("find_providers_cid"), F("cid"), P(TestCid),
                F("num-providers"), P("5")>>
    /\ lastPin.cid = TestCid
    /\ lastPin.api = DefaultAPI
    /\ cidDecode(TestCid).content \in daemon[DaemonAt(DefaultAPI)].pins
    /\ GatePassed
    /\ idOutput # NoId

C24_FindProvidersAsTested ==
    (Test6Invocation /\ pc = "exited") =>
        /\ exitCode = 0
        /\ stderr = <<>>
        /\ Len(stdout) = 1
        /\ stdout[1].kind = "json"
        /\ stdout[1].body.success
        /\ "data" \in DOMAIN stdout[1].body
        /\ stdout[1].body.data.t = "map"
        /\ "providers" \in DOMAIN stdout[1].body.data.v
        /\ stdout[1].body.data.v.providers # <<>>

\* what the helper does with the invocation of the test: the name is not
\* one of its subcommands, and the run fails without a provider lookup
C24_TestedNameIsUnknown ==
    (Test6Invocation /\ pc = "exited") =>
        /\ EndedInFailure({"Unknown subcommand"})
        /\ ~Done("exec_ipfs_routing_findprovs")

(***************************************************************************)
(* C25: no retry.  In one invocation the handler issues at most one        *)
(* operation-specific request to the daemon (one RPC call or one child     *)
(* process; the version query and the identity probe are not counted).     *)
(* When that request fails or times out, the run ends with a failure       *)
(* envelope and the request is not issued again.                           *)
(***************************************************************************)
OperationRequests ==
    { "rpc_pin_add", "rpc_unixfs_add", "exec_ipfs_cat", "exec_ipfs_add",
      "exec_ipfs_key_gen", "exec_ipfs_key_list", "exec_ipfs_name_publish",
      "exec_ipfs_name_resolve", "exec_ipfs_pin_ls", "exec_ipfs_routing_findprovs" }

RequestsIssued == {i \in DOMAIN log : log[i][1] \in OperationRequests}
RequestErrors == {i \in DOMAIN log : log[i][1] = "request_error"}

RequestFailureMessages ==
    { "Failed to pin IPFS path", "Failed to add file to IPFS", "Error executing 'ipfs cat'",
      "Error executing 'ipfs add' for JSON data", "Error executing 'ipfs key gen'",
      "Error executing 'ipfs key list -l'", "Error executing 'ipfs name publish'",
      "Error executing 'ipfs name resolve'", "Error executing 'ipfs pin ls'",
      "Error executing 'ipfs routing findprovs'" }

C25_NoRetryState ==
    /\ Cardinality(RequestsIssued) <= 1
    /\ RequestErrors # {} =>
          /\ Cardinality(RequestsIssued) = 1
          /\ \A e \in RequestErrors : \A i \in RequestsIssued : i < e
          /\ EndedInFailure(RequestFailureMessages)

\* an invocation that has ended issues nothing more
C25_NoRetryStep ==
    pc = "exited" => (log' = log \/ (runs' = runs + 1 /\ log' = <<>>))

C25_NoRetry == []C25_NoRetryState /\ [][C25_NoRetryStep]_vars

\* the resolve command has failed, and the run has ended after this one
\* request
C25_Witness ==
    /\ subcommand = "resolve_ipns"
    /\ pc = "exited"
    /\ Cardinality(RequestsIssued) = 1
    /\ RequestErrors # {}
    /\ exitCode = 1

(***************************************************************************)
(* C26: the stages of an invocation occur in the order global option       *)
(* parsing, parsing of the configured address, version gate, connection    *)
(* and liveness probe, handler dispatch, response emission, and the first  *)
(* stage that fails determines the reported error.  In particular a run    *)
(* with a malformed address and a too old installed version reports the    *)
(* address error, and an unrecognized subcommand name is reported only     *)
(* after version gate and liveness probe have passed.                      *)
(***************************************************************************)
\* the global options have parsed and name a subcommand
SubcommandSelected == subcommand # "" /\ Done("parse_global_flags")

\* positions in the log at which a stage was entered
StageAt(what) == {i \in DOMAIN log : log[i][1] = what}
Before(a, b) == \A i \in StageAt(a), j \in StageAt(b) : i < j

UnknownReported == "Unknown subcommand" \in AllErrors

C26_StageOrder ==
    /\ Before("parse_global_flags", "new_multiaddr")
    /\ Before("new_multiaddr", "exec_ipfs_version")
    /\ Before("exec_ipfs_version", "new_api")
    /\ Before("new_api", "rpc_id")
    /\ Before("rpc_id", "parse_flags")
    /\ (SubcommandSelected /\ pc = "exited" /\ ~MultiaddrOK(apiAddrStr)) =>
          EndedInFailure({"Invalid API multiaddress"})
    /\ UnknownReported =>
          /\ GatePassed
          /\ idOutput # NoId

\* what the helper keeps of C26: the same with the version gate standing
\* before the parsing of the address
C26_GateBeforeAddress ==
    /\ Before("parse_global_flags", "exec_ipfs_version")
    /\ Before("exec_ipfs_version", "new_multiaddr")
    /\ Before("new_multiaddr", "new_api")
    /\ Before("new_api", "rpc_id")
    /\ Before("rpc_id", "parse_flags")
    /\ (SubcommandSelected /\ pc = "exited" /\ subcommand # "version" /\ ~GatePassed) =>
          EndedInFailure(VersionErrors)
    /\ (SubcommandSelected /\ pc = "exited" /\ ~MultiaddrOK(apiAddrStr)
           /\ (subcommand = "version" \/ GatePassed)) =>
          EndedInFailure({"Invalid API multiaddress"})
    /\ UnknownReported =>
          /\ GatePassed
          /\ idOutput # NoId

(***************************************************************************)
(* C27: single response.  No invocation emits more than one response       *)
(* envelope, and once a failure envelope has been emitted the process does *)
(* nothing more: no daemon call, no creation or removal of a file, no      *)
(* further output.                                                         *)
(***************************************************************************)
EnvelopesEmitted ==
    Cardinality(JsonIdx(stdout)) + Cardinality(JsonIdx(stderr))

FailureEmissions == {i \in DOMAIN log : log[i][1] = "emit_failure"}

C27_SingleResponseState ==
    /\ EnvelopesEmitted <= 1
    /\ FailureEmitted =>
          /\ pc = "exited"
          /\ FailureEmissions = {Len(log)}
          /\ stdout = <<>>
          /\ stderr[Len(stderr)].kind = "json"

\* after a failure envelope only a new invocation changes anything
C27_SingleResponseStep ==
    (pc = "exited" /\ FailureEmitted) =>
        \/ runs' = runs + 1
        \/ UNCHANGED <<stdout, stderr, exitCode, log, daemon, fs>>

DaemonInteractions == OperationRequests \cup {"exec_ipfs_version", "rpc_id"}

\* the daemons the interactions of the invocation have reached
DaemonsReached ==
    { TargetOf(log[i][1], apiAddrStr) :
        i \in {j \in DOMAIN log : log[j][1] \in DaemonInteractions} }

ConfiguredDaemon == DaemonAt(apiAddrStr)

C28_TargetState == DaemonsReached \subseteq {ConfiguredDaemon}

\* a step of a running invocation leaves every other daemon as it is
C28_TargetStep ==
    pc \in {"version_check", "connect", "dispatch"} =>
        \A d \in Daemons \ {ConfiguredDaemon} : daemon'[d] = daemon[d]

C28_SingleTargetDaemon == []C28_TargetState /\ [][C28_TargetStep]_vars

\* what the helper keeps of C28: its RPC calls reach the configured daemon,
\* its children the daemon of the command-line tool, and when the two are
\* the same daemon no other daemon is read or changed
C28_TargetsAsBuilt ==
    /\ \A i \in DOMAIN log :
          /\ log[i][1] \in RpcRequests => TargetOf(log[i][1], apiAddrStr) = ConfiguredDaemon
          /\ log[i][1] \in DaemonInteractions \ RpcRequests =>
                TargetOf(log[i][1], apiAddrStr) = CliDaemon
    /\ ConfiguredDaemon = CliDaemon => C28_TargetState

C28_StepAsBuilt ==
    pc \in {"version_check", "connect", "dispatch"} =>
        \A d \in Daemons \ {ConfiguredDaemon, CliDaemon} : daemon'[d] = daemon[d]

C28_SingleTargetAtDefault == []C28_TargetsAsBuilt /\ [][C28_StepAsBuilt]_vars

\* violated by a gen_ipns_key run, configured for the other daemon, that has
\* left its key in the key store of the command-line tool's daemon
C28_KeyStaysWithConfiguredDaemon ==
    ~(/\ subcommand = "gen_ipns_key"
      /\ pc = "exited"
      /\ ConfiguredDaemon # CliDaemon
      /\ daemon[CliDaemon].keys # {"self"}
      /\ daemon[ConfiguredDaemon].keys = {"self"})

(***************************************************************************)
(* C29: CID canonicalization.  Every handler that accepts a CID (pin,      *)
(* get_cid_to_file, get_json_cid, dht_find_providers) validates and        *)
(* canonicalizes it before its operation-specific call, so that the        *)
(* identifier handed to the daemon is the canonical form, obtained by      *)
(* decoding and re-encoding the caller's string.  Canonicalizing is        *)
(* idempotent, and two spellings of one CID lead to the same request.      *)
(***************************************************************************)
CidHandlers == {"pin", "get_cid_to_file", "get_json_cid", "dht_find_providers"}

Canonical(s) == cidString(cidDecode(s))

\* the identifiers handed to the daemon by the requests of the invocation
CidsHandedOver ==
    { log[i][2][2] : i \in {j \in DOMAIN log : log[j][1] = "rpc_pin_add"} }
    \cup { log[i][2][1] : i \in {j \in DOMAIN log : log[j][1] = "exec_ipfs_cat"} }
    \cup { log[i][2][3] :
             i \in {j \in DOMAIN log : log[j][1] = "exec_ipfs_routing_findprovs"} }

\* the CID was decoded before the request was made
DecodedBeforeRequest ==
    \A i \in RequestsIssued : \E j \in 1..(i - 1) : log[j][1] = "cid_decode"

CanonicalIsIdempotent ==
    \A s \in ValidCidStrings : Canonical(Canonical(s)) = Canonical(s)

C29_CanonicalCidHandedOver ==
    /\ CanonicalIsIdempotent
    /\ subcommand \in CidHandlers =>
          /\ DecodedBeforeRequest
          /\ \A c \in CidsHandedOver :
                /\ cidDecode(GivenCid(subcommand, subcommandArgs)).ok
                /\ c = Canonical(GivenCid(subcommand, subcommandArgs))

\* what the helper keeps of C29: every CID is validated before the request,
\* the request is for the content the caller named, and get_json_cid hands
\* over the canonical form; the other handlers hand over the caller's string
C29_ValidatedCidHandedOver ==
    /\ CanonicalIsIdempotent
    /\ subcommand \in CidHandlers =>
          /\ DecodedBeforeRequest
          /\ \A c \in CidsHandedOver :
                /\ cidDecode(GivenCid(subcommand, subcommandArgs)).ok
                /\ cidDecode(c).content = cidDecode(GivenCid(subcommand, subcommandArgs)).content
                /\ IF subcommand = "get_json_cid"
                   THEN c = Canonical(GivenCid(subcommand, subcommandArgs))
                   ELSE c = GivenCid(subcommand, subcommandArgs)

(***************************************************************************)
(* C30: pin entries are well-typed.  In every success envelope of          *)
(* list_pinned_cids each key of the mapping is a CID that decodes and each *)
(* value is one of recursive, direct, indirect, whatever text the listing  *)
(* command printed.                                                        *)
(***************************************************************************)
PinEntryTypes == {"recursive", "direct", "indirect"}

\* the mappings in the success envelopes of list_pinned_cids
PinMappings ==
    { stdout[i].body.data.v :
        i \in {j \in SuccessOn(stdout) : subcommand = "list_pinned_cids"
                                           /\ "data" \in DOMAIN stdout[j].body} }

C30_PinEntriesWellTyped ==
    \A m \in PinMappings : \A e \in m :
        /\ cidDecode(e[1]).ok
        /\ e[2] \in PinEntryTypes

\* what the handler keeps of C30: every key decodes, and every value is the
\* second field of a line of the listing, of whatever text
C30_PinKeysDecode ==
    \A m \in PinMappings : \A e \in m :
        /\ cidDecode(e[1]).ok
        /\ \E out \in ChildStdout : \E k \in DOMAIN WordsOfLines(out) :
              /\ Len(WordsOfLines(out)[k]) >= 2
              /\ WordsOfLines(out)[k][1] = e[1]
              /\ WordsOfLines(out)[k][2] = e[2]

====
